---- MODULE Spec2Model ----
(***************************************************************************)
(* Instance elaboration of the SystemVerilog front-end                     *)
(* (DefinitionSymbols.cpp): DefinitionSymbol::fromSyntax,                  *)
(* InstanceSymbol::fromSyntax with its helpers createTempInstance,         *)
(* createImplicitNets, recurseInstanceArray and createInstance,            *)
(* InstanceSymbol::populate and ModuleInstanceSymbol::instantiate.         *)
(*                                                                         *)
(* A behaviour is the elaboration of one program: the syntax trees are     *)
(* fixed by the initial state, the compilation instantiates the top        *)
(* module, and scopes realise their members on demand, in any order.       *)
(***************************************************************************)
EXTENDS Integers, Sequences, FiniteSets, TLC

VARIABLES
    program,           \* the syntax trees: a sequence of ModuleDeclarationSyntax
    topName,           \* the module the compilation instantiates as root instance
    maxInstanceDepth,  \* CompilationOptions::maxInstanceDepth
    defaultNetType,    \* what Scope::getDefaultNetType gives: "wire", or "none" (error)
    syms,              \* the compilation's symbol arena, in allocation order
    diags,             \* the diagnostics sink, in emission order
    calls,             \* one record per InstanceSymbol::fromSyntax call, in call order
    int32Wraps,        \* the build: whether incrementing the largest int32_t wraps
    source,            \* the text handed to the lexer, a sequence of bytes
    offset,            \* the lexer's position in it
    tokenStream,       \* the tokens Lexer::lex has given, in order
    lexDiags,          \* the diagnostics of the lexer, in emission order
    ppInput,           \* the directives and tokens handed to the preprocessor, in order
    ppPosition,        \* the preprocessor's position in them
    macros,            \* Preprocessor::macros: the `define directive of each macro name
    pendingTrivia,     \* the trivia met since the last token was given out
    expansion,         \* the tokens of the macro body being expanded, still to give out
    ppOutput,          \* the tokens Preprocessor::next has given, in order
    ppDiags,           \* the diagnostics of the preprocessor, in emission order
    declaredTypes,     \* the DeclaredType objects: syntax, resolution state, type
    resolving,         \* the calls of DeclaredType::resolveAt in progress, a stack
    typeDiags,         \* the diagnostics of type resolution, in emission order
    result,            \* what the last request from outside a resolution was given
    callArgs,          \* the bound arguments of a system subroutine call
    checkResult,       \* what the check of those arguments returned and diagnosed
    defMembers,        \* the members of an interface definition
    lookup             \* the last call of getModportOrError on it, and what it gave

elaborationVars ==
    <<program, topName, maxInstanceDepth, defaultNetType, syms, diags, calls, int32Wraps>>

lexerVars == <<source, offset, tokenStream, lexDiags>>

preprocessorVars ==
    <<ppInput, ppPosition, macros, pendingTrivia, expansion, ppOutput, ppDiags>>

resolutionVars == <<declaredTypes, resolving, typeDiags, result>>

checksVars == <<callArgs, checkResult>>

modportVars == <<defMembers, lookup>>

vars ==
    <<elaborationVars, lexerVars, preprocessorVars, resolutionVars, checksVars,
      modportVars>>

-----------------------------------------------------------------------------
(* Bounds of the model. *)

\* largest maxInstanceDepth option tried
MaxDepth == 2
\* longest parameter assignment list tried
MaxAssign == 3
\* most arguments of a system subroutine call
MaxArgs == 3
\* most specifiers of a format string
MaxSpecs == 2
\* most argument types a system subroutine is declared with
MaxCount == 2
\* most members (instantiation statements, generate blocks) realised in one behaviour
MaxMembers == 4
\* most array elements followed after the loop counter of an instance array has wrapped
MaxWrapped == 1
\* longest text lexed, in bytes
MaxText == 4
\* longest string literal body lexed, in bytes
MaxBody == 5
\* longest preprocessor input, in directives and tokens
MaxItems == 4
\* most declared types resolved
MaxTypes == 2
\* most calls of clearResolved in one behaviour
MaxClears == 2

-----------------------------------------------------------------------------
(* The values of int32_t, the type of array indices.                       *)

MaxInt32 == 2147483647

MinInt32 == -MaxInt32 - 1

-----------------------------------------------------------------------------
(* Small helpers over sequences and maps. *)

Range(s) == {s[i] : i \in DOMAIN s}

SeqsUpTo(S, n) == UNION {[1..k -> S] : k \in 0..n}

\* SmallMap::emplace: the first insertion of a key wins.
Emplace(map, key, value) ==
    IF key \in DOMAIN map THEN map
    ELSE [k \in DOMAIN map \cup {key} |-> IF k = key THEN value ELSE map[k]]

EmptyMap == [k \in {} |-> 0]

-----------------------------------------------------------------------------
(* Syntax.                                                                 *)
(*   parameter declaration: [keyword, isType, declarators], a declarator   *)
(*     being [name, hasInit] (hasInit: an initializer, or for a type       *)
(*     parameter a default type);                                          *)
(*   module declaration: [name, definitionKind, hasPortParams, portDecls,  *)
(*     members];                                                           *)
(*   member: a ParameterDeclarationStatement [kind, parameter], a          *)
(*     HierarchyInstantiation [kind, type, hasParameters, assignments,     *)
(*     instances] or a GenerateBlock [kind, members];                      *)
(*   parameter assignment: [kind, name, expr], kind OrderedArgument or     *)
(*     NamedArgument, expr the syntax kind of the value or "none";         *)
(*   hierarchical instance: [name, dimensions, connections].               *)
(***************************************************************************)

Declarator(name, hasInit) == [name |-> name, hasInit |-> hasInit]

ParamDecl(keyword, isType, declarators) ==
    [keyword |-> keyword, isType |-> isType, declarators |-> declarators]

BodyParam(decl) == [kind |-> "ParameterDeclarationStatement", parameter |-> decl]

Instantiation(type, hasParameters, assignments, instances) ==
    [kind |-> "HierarchyInstantiation", type |-> type, hasParameters |-> hasParameters,
     assignments |-> assignments, instances |-> instances]

GenerateBlock(members) == [kind |-> "GenerateBlock", members |-> members]

ModuleDecl(name, definitionKind, hasPortParams, portDecls, members) ==
    [name |-> name, definitionKind |-> definitionKind, hasPortParams |-> hasPortParams,
     portDecls |-> portDecls, members |-> members]

OrderedArgument(expr) == [kind |-> "OrderedArgument", name |-> "", expr |-> expr]

NamedArgument(name, expr) == [kind |-> "NamedArgument", name |-> name, expr |-> expr]

RangeDim(left, right) == [isRange |-> TRUE, left |-> left, right |-> right]

BadDim == [isRange |-> FALSE, left |-> 0, right |-> 0]

\* a port connection: kind, and the identifiers of its expression (hasExpr = FALSE: none)
Connection(kind, hasExpr, idents) == [kind |-> kind, hasExpr |-> hasExpr, idents |-> idents]

Instance(name, dimensions, connections) ==
    [name |-> name, dimensions |-> dimensions, connections |-> connections]

-----------------------------------------------------------------------------
(* DefinitionSymbol::fromSyntax: the definition's parameter list.          *)
(* A parameter is [name, isLocal, isPort, isType, hasDefault, value]; the  *)
(* value is its declared default until an instantiation overrides it.      *)

\* ParameterSymbol::fromSyntax / TypeParameterSymbol::fromSyntax: one symbol per declarator
ParamsOfDecl(decl, isLocal, isPort) ==
    [i \in DOMAIN decl.declarators |->
        [name |-> decl.declarators[i].name, isLocal |-> isLocal, isPort |-> isPort,
         isType |-> decl.isType, hasDefault |-> decl.declarators[i].hasInit,
         value |-> [src |-> IF decl.declarators[i].hasInit THEN "default" ELSE "none",
                    arg |-> 0]]]

\* the loop over the parameter port list with lastLocal never carried over
RECURSIVE PortParametersNotInheriting(_, _)
PortParametersNotInheriting(decls, lastLocal) ==
    IF decls = <<>> THEN <<>>
    ELSE ParamsOfDecl(Head(decls), Head(decls).keyword = "localparam", TRUE)
         \o PortParametersNotInheriting(Tail(decls), lastLocal)

\* the loop over the parameter port list, lastLocal carried from one declaration to the next
RECURSIVE PortParameters(_, _)
PortParameters(decls, lastLocal) ==
    IF decls = <<>> THEN <<>>
    ELSE LET declaration == Head(decls)
             local == IF declaration.keyword # "none"
                      THEN declaration.keyword = "localparam"
                      ELSE lastLocal
         IN  ParamsOfDecl(declaration, local, TRUE) \o PortParameters(Tail(decls), local)

\* the loop over the body members: only parameter declaration statements add parameters
RECURSIVE BodyParameters(_, _)
BodyParameters(members, hasPortParams) ==
    IF members = <<>> THEN <<>>
    ELSE LET member == Head(members)
         IN  (IF member.kind # "ParameterDeclarationStatement" THEN <<>>
              ELSE LET declaration == member.parameter
                       isLocal == hasPortParams \/ declaration.keyword = "localparam"
                   IN  ParamsOfDecl(declaration, isLocal, FALSE))
             \o BodyParameters(Tail(members), hasPortParams)

DefinitionFromSyntax(syntax) ==
    (IF syntax.hasPortParams THEN PortParameters(syntax.portDecls, FALSE) ELSE <<>>)
    \o BodyParameters(syntax.members, syntax.hasPortParams)

\* the members a definition or an instance realises later: all but parameter declarations
RECURSIVE DeferredMembers(_)
DeferredMembers(members) ==
    IF members = <<>> THEN <<>>
    ELSE (IF Head(members).kind = "ParameterDeclarationStatement" THEN <<>>
          ELSE <<Head(members)>>) \o DeferredMembers(Tail(members))

-----------------------------------------------------------------------------
(* Symbols and diagnostics.                                                *)
(* A symbol is referred to by its index in the arena; parent 0 is "no      *)
(* parent scope".                                                          *)

NoLoc == <<"none", 0>>
\* location of the k-th parameter assignment of the statement
ArgLoc(k) == <<"assignment", k>>
\* syntax.type.range()
TypeLoc == <<"type", 0>>
\* syntax.getFirstToken().location()
StmtLoc == <<"statement", 0>>
\* location of the k-th parameter symbol of the definition
ParamLoc(k) == <<"parameter", k>>

\* scope.addDiag(code, loc) << arg, with an optional note location
Diag(code, scope, loc, arg, note) ==
    [code |-> code, scope |-> scope, loc |-> loc, arg |-> arg, note |-> note]

DefaultRange == [left |-> 0, right |-> 0]

Symbol(kind, name, parent) ==
    [kind |-> kind, name |-> name, parent |-> parent, hierarchyDepth |-> 0,
     definition |-> "", pending |-> <<>>, parameters |-> <<>>, arrayPath |-> <<>>,
     elements |-> <<>>, range |-> DefaultRange, netType |-> "", isTemp |-> FALSE,
     populated |-> TRUE, syntax |-> "", location |-> NoLoc, type |-> ""]

\* InstanceSymbol::isKind
IsInstanceKind(kind) == kind \in {"ModuleInstance", "ProgramInstance", "InterfaceInstance"}

\* the symbol kind createInstance picks for a definition kind
InstanceKindOf(definitionKind) ==
    CASE definitionKind = "Module" -> "ModuleInstance"
      [] definitionKind = "Interface" -> "InterfaceInstance"
      [] definitionKind = "Program" -> "ProgramInstance"

\* Scope::addMember for each of a list of symbols: the scope becomes their parent
SetParents(S, members, scope) ==
    [i \in DOMAIN S |-> IF i \in Range(members) THEN [S[i] EXCEPT !.parent = scope] ELSE S[i]]

\* Compilation::getDefinition: the definition symbol of that name, 0 if there is none
GetDefinition(S, name) ==
    IF \E i \in DOMAIN S : S[i].kind = "Definition" /\ S[i].name = name
    THEN CHOOSE i \in DOMAIN S : S[i].kind = "Definition" /\ S[i].name = name
    ELSE 0

-----------------------------------------------------------------------------
(* InstanceSymbol::fromSyntax, the parameter assignments.                  *)
(* An assignment is referred to by its position in the list, which stands  *)
(* for its location and for the identity of its value expression.          *)

RECURSIVE ScanAssignments(_, _, _, _)

\* the other form diagnosed, and the loop going on with the next assignment
AfterMixingContinues(assignments, i, scope, st) ==
    ScanAssignments(assignments, i + 1, scope,
        [st EXCEPT !.diags = Append(@, Diag("MixingOrderedAndNamedParams", scope, ArgLoc(i),
                                            "", NoLoc))])

\* lines 322-325: an assignment of the other form is diagnosed and ends the loop
AfterMixing(assignments, i, scope, st) ==
    [st EXCEPT !.diags = Append(@, Diag("MixingOrderedAndNamedParams", scope, ArgLoc(i),
                                        "", NoLoc))]

\* a repeated name diagnosed, but its entry made to point at the repeat
NamedParamLastWins(st, name, i, scope) ==
    LET seen == {k \in DOMAIN st.namedParams : st.namedParams[k].name = name}
    IN  IF name = "" THEN st
        ELSE IF seen = {}
        THEN [st EXCEPT !.namedParams =
                            Append(@, [name |-> name, arg |-> i, used |-> FALSE])]
        ELSE LET it == CHOOSE k \in seen : TRUE
             IN  [st EXCEPT !.namedParams[it].arg = i,
                            !.diags = Append(@, Diag("DuplicateParamAssignment", scope,
                                                     ArgLoc(i), name,
                                                     ArgLoc(st.namedParams[it].arg)))]

\* lines 331-342: a named assignment enters namedParams unless its name is empty or
\* already there; a repeated name is diagnosed with a note at the entry's assignment
NamedParam(st, name, i, scope) ==
    LET seen == {k \in DOMAIN st.namedParams : st.namedParams[k].name = name}
    IN  IF name = "" THEN st
        ELSE IF seen = {}
        THEN [st EXCEPT !.namedParams =
                            Append(@, [name |-> name, arg |-> i, used |-> FALSE])]
        ELSE LET first == st.namedParams[CHOOSE k \in seen : TRUE].arg
             IN  [st EXCEPT !.diags = Append(@, Diag("DuplicateParamAssignment", scope,
                                                     ArgLoc(i), name, ArgLoc(first)))]

\* the loop over syntax.parameters->assignments->parameters, from assignment i on.
\* st: hasParamAssignments, orderedAssignments, orderedParams (positions),
\* namedParams (entries [name, arg, used] in insertion order), diags.
ScanAssignments(assignments, i, scope, st) ==
    IF i > Len(assignments) THEN st
    ELSE
    LET paramBase == assignments[i]
        isOrdered == paramBase.kind = "OrderedArgument"
    IN  IF st.hasParamAssignments /\ isOrdered # st.orderedAssignments
        THEN AfterMixing(assignments, i, scope, st)
        ELSE
        LET st1 == IF ~st.hasParamAssignments
                   THEN [st EXCEPT !.hasParamAssignments = TRUE,
                                   !.orderedAssignments = isOrdered]
                   ELSE st
            st2 == IF isOrdered
                   THEN [st1 EXCEPT !.orderedParams = Append(@, i)]
                   ELSE NamedParam(st1, paramBase.name, i, scope)
        IN  ScanAssignments(assignments, i + 1, scope, st2)

ScanStart ==
    [hasParamAssignments |-> FALSE, orderedAssignments |-> TRUE, orderedParams |-> <<>>,
     namedParams |-> <<>>, diags |-> <<>>]

\* the ordered loop giving local parameters an assignment too
RECURSIVE MatchOrderedCountingLocals(_, _, _, _)
MatchOrderedCountingLocals(parameters, k, orderedParams, st) ==
    IF k > Len(parameters) THEN st
    ELSE IF st.orderedIndex >= Len(orderedParams) THEN st
    ELSE MatchOrderedCountingLocals(parameters, k + 1, orderedParams,
             [orderedIndex |-> st.orderedIndex + 1,
              paramOverrides |-> Emplace(st.paramOverrides, parameters[k].name,
                                         orderedParams[st.orderedIndex + 1])])

\* the loop over definition->parameters for ordered assignments, from parameter k on.
\* st: orderedIndex (zero-based, as in the source), paramOverrides.
RECURSIVE MatchOrdered(_, _, _, _)
MatchOrdered(parameters, k, orderedParams, st) ==
    IF k > Len(parameters) THEN st
    ELSE IF st.orderedIndex >= Len(orderedParams) THEN st
    ELSE IF parameters[k].isLocal
    THEN MatchOrdered(parameters, k + 1, orderedParams, st)
    ELSE MatchOrdered(parameters, k + 1, orderedParams,
             [orderedIndex |-> st.orderedIndex + 1,
              paramOverrides |-> Emplace(st.paramOverrides, parameters[k].name,
                                         orderedParams[st.orderedIndex + 1])])

\* the extra-assignment check letting one surplus assignment pass
OrderedAssignmentsOneSpare(st, orderedParams, scope, defName) ==
    [paramOverrides |-> st.paramOverrides,
     orderedIndex |-> st.orderedIndex,
     namedParams |-> <<>>,
     diags |-> IF st.orderedIndex < Len(orderedParams) - 1
               THEN <<Diag("TooManyParamAssignments", scope,
                           ArgLoc(orderedParams[st.orderedIndex + 1]), defName, NoLoc)>>
               ELSE <<>>]

\* the extra-assignment check after the loop, st being what the loop left; the
\* diagnostic's further arguments (the two counts) are message text only
OrderedAssignments(st, orderedParams, scope, defName) ==
    [paramOverrides |-> st.paramOverrides,
     orderedIndex |-> st.orderedIndex,
     namedParams |-> <<>>,
     diags |-> IF st.orderedIndex < Len(orderedParams)
               THEN <<Diag("TooManyParamAssignments", scope,
                           ArgLoc(orderedParams[st.orderedIndex + 1]), defName, NoLoc)>>
               ELSE <<>>]

\* the local parameter diagnosed and overridden all the same
NamedStepOverridesLocal(param, k, arg, assignments, scope, st) ==
    IF param.isLocal
    THEN LET code == IF param.isPort THEN "AssignedToLocalPortParam"
                                     ELSE "AssignedToLocalBodyParam"
         IN  [st EXCEPT !.diags = Append(@, Diag(code, scope, ArgLoc(arg), "",
                                                 ParamLoc(k))),
                        !.paramOverrides = Emplace(@, param.name, arg)]
    ELSE IF assignments[arg].expr = "none" THEN st
    ELSE [st EXCEPT !.paramOverrides = Emplace(@, param.name, arg)]

\* lines 375-392: what the named assignment at position arg does to parameter k
NamedStep(param, k, arg, assignments, scope, st) ==
    IF param.isLocal
    THEN LET code == IF param.isPort THEN "AssignedToLocalPortParam"
                                     ELSE "AssignedToLocalBodyParam"
         IN  [st EXCEPT !.diags = Append(@, Diag(code, scope, ArgLoc(arg), "",
                                                 ParamLoc(k)))]
    ELSE IF assignments[arg].expr = "none" THEN st
    ELSE [st EXCEPT !.paramOverrides = Emplace(@, param.name, arg)]

\* the loop over definition->parameters for named assignments, from parameter k on.
\* st: namedParams (with the used marks), paramOverrides, diags.
RECURSIVE MatchNamed(_, _, _, _, _)
MatchNamed(parameters, k, assignments, scope, st) ==
    IF k > Len(parameters) THEN st
    ELSE
    LET param == parameters[k]
        found == {e \in DOMAIN st.namedParams : st.namedParams[e].name = param.name}
    IN  IF found = {} THEN MatchNamed(parameters, k + 1, assignments, scope, st)
        ELSE
        LET it == CHOOSE e \in found : TRUE
            marked == [st EXCEPT !.namedParams[it].used = TRUE]
        IN  MatchNamed(parameters, k + 1, assignments, scope,
                       NamedStep(param, k, st.namedParams[it].arg, assignments, scope,
                                 marked))

RECURSIVE LeftOverAll(_, _)
\* the loop over namedParams reporting every entry, used or not
LeftOverAll(namedParams, scope) ==
    IF namedParams = <<>> THEN <<>>
    ELSE <<Diag("ParameterDoesNotExist", scope, ArgLoc(Head(namedParams).arg),
                Head(namedParams).name, NoLoc)>> \o LeftOverAll(Tail(namedParams), scope)

\* the loop over namedParams reporting what no parameter used. The source iterates a
\* hash map, whose order is not fixed; insertion order stands for it here.
RECURSIVE LeftOver(_, _)
LeftOver(namedParams, scope) ==
    IF namedParams = <<>> THEN <<>>
    ELSE (IF ~Head(namedParams).used
          THEN <<Diag("ParameterDoesNotExist", scope, ArgLoc(Head(namedParams).arg),
                      Head(namedParams).name, NoLoc)>>
          ELSE <<>>) \o LeftOver(Tail(namedParams), scope)

\* the named branch after its first loop, st being what that loop left
NamedAssignments(st, scope) ==
    [paramOverrides |-> st.paramOverrides,
     orderedIndex |-> 0,
     namedParams |-> st.namedParams,
     diags |-> st.diags \o LeftOver(st.namedParams, scope)]

\* lines 346-405: the assignments the scan kept are matched with the parameters
MatchAssignments(scan, match) ==
    [paramOverrides |-> match.paramOverrides,
     orderedAssignments |-> scan.orderedAssignments,
     orderedParams |-> scan.orderedParams,
     orderedIndex |-> match.orderedIndex,
     namedParams |-> match.namedParams,
     diags |-> scan.diags \o match.diags]

AssignmentsOf(scan, assignments, parameters, scope, defName) ==
    MatchAssignments(scan,
        IF scan.orderedAssignments
        THEN OrderedAssignments(
                 MatchOrdered(parameters, 1, scan.orderedParams,
                              [orderedIndex |-> 0, paramOverrides |-> EmptyMap]),
                 scan.orderedParams, scope, defName)
        ELSE NamedAssignments(
                 MatchNamed(parameters, 1, assignments, scope,
                            [namedParams |-> scan.namedParams,
                             paramOverrides |-> EmptyMap, diags |-> <<>>]),
                 scope))

\* lines 306-406: paramOverrides, with what the statement's assignment list was found to be
ParamOverrides(syntax, parameters, scope, defName) ==
    IF ~syntax.hasParameters
    THEN [paramOverrides |-> EmptyMap, orderedAssignments |-> TRUE, orderedParams |-> <<>>,
          orderedIndex |-> 0, namedParams |-> <<>>, diags |-> <<>>]
    ELSE AssignmentsOf(ScanAssignments(syntax.assignments, 1, scope, ScanStart),
                       syntax.assignments, parameters, scope, defName)

\* the condition without the test for a port parameter
NoValueIgnoringPort(param) == ~param.isLocal /\ ~param.hasDefault

\* lines 431-432 and 472-473: a parameter that must be given a value by the instantiation
NoValue(param) == ~param.isLocal /\ param.isPort /\ ~param.hasDefault

\* the loop of lines 416-483 from parameter k on: the cloned parameters with their values
\* (value.src: "override" with the assignment position, "default", or "none").
RECURSIVE EvaluateParameters(_, _, _, _, _)
EvaluateParameters(parameters, k, paramOverrides, assignments, scope) ==
    IF k > Len(parameters) THEN [parameters |-> <<>>, diags |-> <<>>]
    ELSE
    LET param == parameters[k]
        rest == EvaluateParameters(parameters, k + 1, paramOverrides, assignments, scope)
        overridden == param.name \in DOMAIN paramOverrides
        arg == paramOverrides[param.name]
        noValue == NoValue(param)
        newParam ==
            IF overridden /\ (~param.isType
                              \/ assignments[arg].expr \in {"Name", "DataType"})
            THEN [param EXCEPT !.value = [src |-> "override", arg |-> arg]]
            ELSE param
        diag ==
            IF overridden
            THEN IF param.isType /\ assignments[arg].expr \notin {"Name", "DataType"}
                 THEN <<Diag("BadTypeParamExpr", scope, ArgLoc(arg), param.name, NoLoc)>>
                 ELSE <<>>
            ELSE IF noValue
            THEN <<Diag("ParamHasNoValue", scope, StmtLoc, param.name, NoLoc)>>
            ELSE <<>>
    IN  [parameters |-> <<newParam>> \o rest.parameters, diags |-> diag \o rest.diags]

-----------------------------------------------------------------------------
(* InstanceSymbol::populate and the instantiate functions.                 *)

\* the names of the declarators of the body's parameter declaration statements, in order
RECURSIVE BodyDeclarators(_)
BodyDeclarators(members) ==
    IF members = <<>> THEN <<>>
    ELSE (IF Head(members).kind = "ParameterDeclarationStatement"
          THEN [i \in DOMAIN Head(members).parameter.declarators |->
                    Head(members).parameter.declarators[i].name]
          ELSE <<>>) \o BodyDeclarators(Tail(members))

\* the first loop running to the end of the vector, port parameter or not
PortPrefixToTheEnd(parameters, paramIt) == Len(parameters)

\* the first loop of populate: how many leading parameters are port parameters
RECURSIVE PortPrefix(_, _)
PortPrefix(parameters, paramIt) ==
    IF paramIt > Len(parameters) THEN paramIt - 1
    ELSE IF ~parameters[paramIt].isPort THEN paramIt - 1
    ELSE PortPrefix(parameters, paramIt + 1)

\* populate: the parameters that become members of the instance, and whether both
\* assertions held for every declarator of the body
Populate(declSyntax, parameters) ==
    LET ports == PortPrefix(parameters, 1)
        declarators == BodyDeclarators(declSyntax.members)
        holds(j) == /\ ports + j <= Len(parameters)
                    /\ declarators[j] = parameters[ports + j].name
        ok == \A j \in DOMAIN declarators : holds(j)
        taken == IF ok THEN ports + Len(declarators) ELSE ports
    IN  [parameters |-> SubSeq(parameters, 1, taken), ok |-> ok]

\* the four instantiate functions: a new instance symbol, populated, not yet a member of
\* any scope. The body's other members are realised when the instance is elaborated.
Instantiate(kind, name, declSyntax, parameters, hierarchyDepth) ==
    LET members == Populate(declSyntax, parameters)
    IN  [Symbol(kind, name, 0) EXCEPT
            !.hierarchyDepth = hierarchyDepth,
            !.definition = declSyntax.name,
            !.parameters = members.parameters,
            !.populated = members.ok,
            !.pending = DeferredMembers(declSyntax.members)]

-----------------------------------------------------------------------------
(* The helpers of InstanceSymbol::fromSyntax that create symbols. Each     *)
(* takes the arena S and gives the arena after it.                         *)

DeclSyntax(prog, name) == prog[CHOOSE i \in DOMAIN prog : prog[i].name = name]

\* ctx holds what the recursion passes down unchanged: declSyntax (the definition's
\* syntax), instanceSyntax, parameters, hierarchyDepth, and wraps (the build).
\* createInstance and recurseInstanceArray give the arena (syms), the symbol made
\* (sym), the dimensions evaluated on the way (evals), and whether control never
\* came back (diverged).
\* an instance handed no parameters, left to find its own
createInstanceOwnParameters(S, ctx, path) ==
    LET inst == Instantiate(InstanceKindOf(ctx.declSyntax.definitionKind),
                            ctx.instanceSyntax.name, ctx.declSyntax, <<>>,
                            ctx.hierarchyDepth)
    IN  [syms |-> Append(S, [inst EXCEPT !.arrayPath = path,
                                         !.syntax = ctx.instanceSyntax.name]),
         sym |-> Len(S) + 1, evals |-> <<>>, diverged |-> FALSE]

createInstance(S, ctx, path) ==
    LET inst == Instantiate(InstanceKindOf(ctx.declSyntax.definitionKind),
                            ctx.instanceSyntax.name, ctx.declSyntax, ctx.parameters,
                            ctx.hierarchyDepth)
    IN  [syms |-> Append(S, [inst EXCEPT !.arrayPath = path,
                                         !.syntax = ctx.instanceSyntax.name]),
         sym |-> Len(S) + 1, evals |-> <<>>, diverged |-> FALSE]

\* ConstantRange::lower and ConstantRange::upper
Lower(range) == IF range.left < range.right THEN range.left ELSE range.right

Upper(range) == IF range.left < range.right THEN range.right ELSE range.left

\* context.evalDimension(**it, true), as the log keeps it: the instance name, the
\* position of the dimension in its list, and the indices chosen above it
EvalDimension(ctx, dims, path) ==
    [instance |-> ctx.instanceSyntax.name,
     dimension |-> Len(ctx.instanceSyntax.dimensions) - Len(dims) + 1,
     path |-> path]

RECURSIVE recurseInstanceArray(_, _, _, _)
RECURSIVE ArrayElements(_, _, _, _, _, _)

\* i++ on the int32_t loop counter. At the largest value the increment overflows, which
\* is undefined: a build whose arithmetic wraps goes on from the smallest value.
Increment(i) == IF i = MaxInt32 THEN MinInt32 ELSE i + 1

\* one pass of the loop body of lines 219-225, made being what the recursive call gave.
\* st: syms, elements, evals, diverged, hasWrapped (the counter has overflowed and
\* wrapped), wrapped (the passes made since)
ElementAt(st, made) ==
    [st EXCEPT !.syms = IF made.diverged THEN made.syms
                        ELSE [made.syms EXCEPT ![made.sym].name = ""],
               !.elements = IF made.diverged THEN @ ELSE Append(@, made.sym),
               !.evals = @ \o made.evals,
               !.diverged = made.diverged,
               !.wrapped = IF st.hasWrapped THEN @ + 1 ELSE @]

\* the element loop of recurseInstanceArray from index i on. After the body for the
\* largest int32_t the counter overflows: the loop either ends there (a build that
\* took the trip count from the bounds) or wraps and never ends, since every int32_t
\* is at most upper; of the endless loop the first MaxWrapped further passes are kept.
ArrayElements(ctx, dims, path, i, upper, st) ==
    IF st.diverged \/ ~(i <= upper) THEN st
    ELSE IF st.hasWrapped /\ st.wrapped >= MaxWrapped THEN [st EXCEPT !.diverged = TRUE]
    ELSE IF i = MaxInt32 /\ ~ctx.wraps
    THEN ElementAt(st, recurseInstanceArray(st.syms, ctx, dims, Append(path, i)))
    ELSE ArrayElements(ctx, dims, path, Increment(i), upper,
             [ElementAt(st, recurseInstanceArray(st.syms, ctx, dims, Append(path, i)))
                 EXCEPT !.hasWrapped = @ \/ i = MaxInt32])

\* lines 228-234: the array symbol, its elements made its members
ArrayOf(loop, name, range) ==
    IF loop.diverged
    THEN [syms |-> loop.syms, sym |-> 0, evals |-> loop.evals, diverged |-> TRUE]
    ELSE [syms |-> SetParents(Append(loop.syms,
                                     [Symbol("InstanceArray", name, 0) EXCEPT
                                         !.elements = loop.elements, !.range = range]),
                              loop.elements, Len(loop.syms) + 1),
          sym |-> Len(loop.syms) + 1, evals |-> loop.evals, diverged |-> FALSE]

\* an array made for a dimension that is no range, holding an instance all the same
EmptyArrayWithInstance(S, ctx, dims, path) ==
    LET made == createInstance(S, ctx, path)
    IN  [syms |-> SetParents(Append(made.syms,
                                    [Symbol("InstanceArray", ctx.instanceSyntax.name, 0)
                                        EXCEPT !.elements = <<made.sym>>]),
                             <<made.sym>>, Len(made.syms) + 1),
         sym |-> Len(made.syms) + 1,
         evals |-> <<EvalDimension(ctx, dims, path)>>, diverged |-> FALSE]

\* lines 208-212: the dimension is no range; an array without elements, of the default
\* range, stands for the instance name
EmptyArray(S, ctx, dims, path) ==
    [syms |-> Append(S, Symbol("InstanceArray", ctx.instanceSyntax.name, 0)),
     sym |-> Len(S) + 1,
     evals |-> <<EvalDimension(ctx, dims, path)>>, diverged |-> FALSE]

recurseInstanceArray(S, ctx, dims, path) ==
    IF dims = <<>>
    THEN createInstance(S, ctx, path)
    ELSE
    LET dim == Head(dims)
        name == ctx.instanceSyntax.name
        range == [left |-> dim.left, right |-> dim.right]
    IN  IF ~dim.isRange
        THEN EmptyArray(S, ctx, dims, path)
        ELSE ArrayOf(ArrayElements(ctx, Tail(dims), path, Lower(range), Upper(range),
                                   [syms |-> S, elements |-> <<>>,
                                    evals |-> <<EvalDimension(ctx, dims, path)>>,
                                    diverged |-> FALSE, wrapped |-> 0,
                                    hasWrapped |-> FALSE]),
                     name, range)

\* createTempInstance: a module instance of depth 0 whose parent is the definition's
\* parent scope; it houses the parameters while they are evaluated
createTempInstance(S, def) ==
    Append(S, [Symbol("ModuleInstance", S[def].name, S[def].parent) EXCEPT
                  !.definition = S[def].name, !.isTemp = TRUE])

\* the identifiers every scope of the modelled programs declares
DeclaredIdents == {"clk"}

\* location of the t-th identifier of the j-th connection of an instance name
TokenLoc(instance, j, t) == <<"token", instance, j, t>>

\* the identifier tokens of the j-th connection's expression
Tokens(instance, j) ==
    [t \in DOMAIN instance.connections[j].idents |->
        [valueText |-> instance.connections[j].idents[t],
         location |-> TokenLoc(instance.name, j, t)]]

\* Expression::findPotentiallyImplicitNets: the identifiers of the expression that do
\* not resolve in the scope
FindPotentiallyImplicitNets(tokens) ==
    SelectSeq(tokens, LAMBDA t : t.valueText \notin DeclaredIdents)

\* the nets made for every token, whether or not the name already has one
RECURSIVE NetsOfTokensRepeating(_, _, _)
NetsOfTokensRepeating(tokens, netType, st) ==
    IF tokens = <<>> THEN st
    ELSE NetsOfTokensRepeating(Tail(tokens), netType,
             [st EXCEPT !.syms = Append(@, [Symbol("Net", Head(tokens).valueText, 0) EXCEPT
                                               !.location = Head(tokens).location,
                                               !.netType = netType,
                                               !.type = "logic"]),
                        !.results = Append(@, Len(st.syms) + 1),
                        !.implicitNetNames = @ \cup {Head(tokens).valueText}])

\* the loop over the tokens of one connection. st: the state of the loop over
\* syntax.instances, of which syms, results and implicitNetNames change
RECURSIVE NetsOfTokens(_, _, _)
NetsOfTokens(tokens, netType, st) ==
    IF tokens = <<>> THEN st
    ELSE IF Head(tokens).valueText \in st.implicitNetNames
    THEN NetsOfTokens(Tail(tokens), netType, st)
    ELSE NetsOfTokens(Tail(tokens), netType,
             [st EXCEPT !.syms = Append(@, [Symbol("Net", Head(tokens).valueText, 0) EXCEPT
                                               !.location = Head(tokens).location,
                                               !.netType = netType,
                                               !.type = "logic"]),
                        !.results = Append(@, Len(st.syms) + 1),
                        !.implicitNetNames = @ \cup {Head(tokens).valueText}])

\* the loop over instance.connections, from the j-th on
RECURSIVE NetsOfConnections(_, _, _, _)
NetsOfConnections(instance, j, netType, st) ==
    IF j > Len(instance.connections) THEN st
    ELSE
    LET conn == instance.connections[j]
        hasExpr == conn.kind \in {"OrderedPortConnection", "NamedPortConnection"}
                   /\ conn.hasExpr
    IN  IF ~hasExpr THEN NetsOfConnections(instance, j + 1, netType, st)
        ELSE NetsOfConnections(instance, j + 1, netType,
                 NetsOfTokens(FindPotentiallyImplicitNets(Tokens(instance, j)),
                              netType, st))

\* st.netCalls counts the calls of createImplicitNets
createImplicitNets(instance, netType, st) ==
    IF netType = "none" THEN [st EXCEPT !.netCalls = @ + 1]
    ELSE NetsOfConnections(instance, 1, netType, [st EXCEPT !.netCalls = @ + 1])

-----------------------------------------------------------------------------
(* InstanceSymbol::fromSyntax.                                             *)

RECURSIVE WalkToInstance(_, _)
RECURSIVE WalkToInstanceSameDepth(_, _)

\* the walk without the step to the parent's depth plus one
WalkToInstanceSameDepth(S, parent) ==
    IF IsInstanceKind(S[parent].kind)
    THEN [found |-> TRUE, hierarchyDepth |-> S[parent].hierarchyDepth]
    ELSE IF S[parent].parent = 0
    THEN [found |-> FALSE, hierarchyDepth |-> 0]
    ELSE WalkToInstanceSameDepth(S, S[parent].parent)

\* the walk that looks at the scope only and never climbs to its parents
WalkToInstanceNoClimb(S, parent) ==
    IF IsInstanceKind(S[parent].kind)
    THEN [found |-> TRUE, hierarchyDepth |-> S[parent].hierarchyDepth + 1]
    ELSE [found |-> FALSE, hierarchyDepth |-> 0]

\* the walk of lines 488-506 up the parent chain, from the symbol of the scope: whether
\* an instance encloses the statement, and the depth the new instances would have
WalkToInstance(S, parent) ==
    IF IsInstanceKind(S[parent].kind)
    THEN [found |-> TRUE, hierarchyDepth |-> S[parent].hierarchyDepth + 1]
    ELSE IF S[parent].parent = 0
    THEN [found |-> FALSE, hierarchyDepth |-> 0]
    ELSE WalkToInstance(S, S[parent].parent)

\* the depth check with the limit itself refused
DepthExceededAtLimit(hierarchyDepth, maxDepth) == hierarchyDepth >= maxDepth

\* the depth check inside the walk
DepthExceeded(hierarchyDepth, maxDepth) == hierarchyDepth > maxDepth

\* lines 518-521: the symbol of one instance name appended to results, unless control
\* never came back. st: syms, results, implicitNetNames, evals, netCalls, diverged.
InstanceMade(st, made) ==
    [st EXCEPT !.syms = made.syms,
               !.results = IF made.diverged THEN @ ELSE Append(@, made.sym),
               !.evals = @ \o made.evals,
               !.diverged = made.diverged]

\* lines 516-520: the symbol for one instance name, nets being the loop's state after
\* createImplicitNets
InstanceOf(instanceSyntax, ctx, nets) ==
    InstanceMade(nets,
        recurseInstanceArray(nets.syms,
            [declSyntax |-> ctx.declSyntax, instanceSyntax |-> instanceSyntax,
             parameters |-> ctx.parameters, hierarchyDepth |-> ctx.hierarchyDepth,
             wraps |-> ctx.wraps],
            instanceSyntax.dimensions, <<>>))

\* the loop that looks for implicit nets after it has made the instance
RECURSIVE InstancesLoopNetsAfter(_, _, _, _)
InstancesLoopNetsAfter(instances, ctx, netType, st) ==
    IF instances = <<>> \/ st.diverged THEN st
    ELSE InstancesLoopNetsAfter(Tail(instances), ctx, netType,
             createImplicitNets(Head(instances), netType,
                                InstanceOf(Head(instances), ctx, st)))

\* the loop over syntax.instances. ctx: declSyntax, parameters, hierarchyDepth, wraps
RECURSIVE InstancesLoop(_, _, _, _)
InstancesLoop(instances, ctx, netType, st) ==
    IF instances = <<>> \/ st.diverged THEN st
    ELSE InstancesLoop(Tail(instances), ctx, netType,
             InstanceOf(Head(instances), ctx,
                        createImplicitNets(Head(instances), netType, st)))

\* what a call leaves behind when it returns before it has a definition
NoCall(scope, syntax) ==
    [scope |-> scope, syntax |-> syntax, definition |-> 0, orderedAssignments |-> TRUE,
     orderedParams |-> <<>>, orderedIndex |-> 0, namedParams |-> <<>>,
     paramOverrides |-> EmptyMap, parameters |-> <<>>, tempDef |-> 0, found |-> FALSE,
     hierarchyDepth |-> 0, exceeded |-> FALSE, results |-> <<>>, diags |-> <<>>,
     evals |-> <<>>, netCalls |-> 0, emplaced |-> {}, returned |-> TRUE]

\* the unknown module diagnosed, but the assignment list scanned all the same
UnknownModuleScanning(S, scope, syntax) ==
    [syms |-> S,
     call |-> [NoCall(scope, syntax) EXCEPT
                  !.diags = <<Diag("UnknownModule", scope, TypeLoc, syntax.type, NoLoc)>>
                            \o ScanAssignments(syntax.assignments, 1, scope,
                                               ScanStart).diags]]

\* lines 301-304: the definition does not resolve
UnknownModule(S, scope, syntax) ==
    [syms |-> S,
     call |-> [NoCall(scope, syntax) EXCEPT
                  !.diags = <<Diag("UnknownModule", scope, TypeLoc, syntax.type, NoLoc)>>]]

\* The stages below take and give st: the arena (syms) and the record of the call
\* (call), which holds the call's locals, the symbols it appended to results and the
\* diagnostics it added.

\* lines 306-406: the locals the assignment list leaves
AssignParameters(st, over) ==
    [st EXCEPT !.call = [f \in DOMAIN @ |-> IF f \in DOMAIN over THEN over[f] ELSE @[f]]]

\* lines 411-483: the temporary instance, and the parameters cloned into it
CloneParameters(st, tempDef, eval) ==
    [syms |-> [createTempInstance(st.syms, st.call.definition) EXCEPT
                  ![tempDef].parameters = eval.parameters],
     call |-> [st.call EXCEPT !.parameters = eval.parameters,
                              !.tempDef = tempDef,
                              !.diags = @ \o eval.diags]]

\* lines 488-506: the walk up the parents and the refusal
CheckDepth(st, walk, exceeded) ==
    [st EXCEPT !.call.found = walk.found,
               !.call.hierarchyDepth = walk.hierarchyDepth,
               !.call.exceeded = exceeded,
               !.call.diags = IF exceeded
                              THEN @ \o <<Diag("MaxInstanceDepthExceeded", st.call.scope,
                                               TypeLoc, "", NoLoc)>>
                              ELSE @]

\* lines 510-522: the instances, unless the walk returned. The record keeps the
\* symbols the loop emplaced in the arena, members of a scope or not.
CreateInstances(st, made) ==
    IF st.call.exceeded THEN st
    ELSE [syms |-> made.syms,
          call |-> [st.call EXCEPT !.results = made.results,
                                   !.evals = made.evals,
                                   !.netCalls = made.netCalls,
                                   !.emplaced = (Len(st.syms) + 1)..Len(made.syms),
                                   !.returned = ~made.diverged]]

Resolved(st, prog, maxDepth, netType, wraps) ==
    LET S == st.syms
        call == st.call
        definition == S[call.definition]
        assigned ==
            AssignParameters(st, ParamOverrides(call.syntax, definition.parameters,
                                                call.scope, definition.name))
        cloned ==
            CloneParameters(assigned, Len(S) + 1,
                EvaluateParameters(definition.parameters, 1, assigned.call.paramOverrides,
                                   call.syntax.assignments, call.scope))
        walk == WalkToInstance(cloned.syms, call.scope)
        checked ==
            CheckDepth(cloned, walk,
                       walk.found /\ DepthExceeded(walk.hierarchyDepth, maxDepth))
    IN  CreateInstances(checked,
            InstancesLoop(call.syntax.instances,
                          [declSyntax |-> DeclSyntax(prog, call.syntax.type),
                           parameters |-> checked.call.parameters,
                           hierarchyDepth |-> checked.call.hierarchyDepth,
                           wraps |-> wraps],
                          netType,
                          [syms |-> checked.syms, results |-> <<>>,
                           implicitNetNames |-> {}, evals |-> <<>>,
                           netCalls |-> 0, diverged |-> FALSE]))

\* The whole function: the arena after the call and the record of the call.
InstanceFromSyntax(S, scope, syntax, prog, maxDepth, netType, wraps) ==
    LET definition == GetDefinition(S, syntax.type)
    IN  IF definition = 0
        THEN UnknownModule(S, scope, syntax)
        ELSE Resolved([syms |-> S,
                       call |-> [NoCall(scope, syntax) EXCEPT !.definition = definition]],
                      prog, maxDepth, netType, wraps)

-----------------------------------------------------------------------------
(* Scopes realise their members on demand (Scope, outside this file): each *)
(* instantiation statement is handed to InstanceSymbol::fromSyntax and the *)
(* symbols it gives become members of the scope; a generate block becomes  *)
(* a scope of its own.                                                     *)

\* the symbols a call gave become members of the scope, if the call returned.
\* st: syms, diags, calls
AddMembers(st, scope, r) ==
    [syms |-> IF r.call.returned THEN SetParents(r.syms, r.call.results, scope)
              ELSE r.syms,
     diags |-> st.diags \o r.call.diags,
     calls |-> Append(st.calls, r.call)]

\* no call is still running: one that never returns leaves nothing to go on with
Running(cs) == \E k \in DOMAIN cs : ~cs[k].returned

\* opts: maxDepth, netType, wraps
RECURSIVE ElaborateMembers(_, _, _, _, _)
ElaborateMembers(members, scope, prog, opts, st) ==
    IF members = <<>> \/ Running(st.calls) THEN st
    ELSE
    LET member == Head(members)
        next ==
            IF member.kind = "HierarchyInstantiation"
            THEN AddMembers(st, scope,
                            InstanceFromSyntax(st.syms, scope, member, prog,
                                               opts.maxDepth, opts.netType, opts.wraps))
            ELSE [st EXCEPT !.syms = Append(@, [Symbol("GenerateBlock", "", scope) EXCEPT
                                                   !.pending = member.members])]
    IN  ElaborateMembers(Tail(members), scope, prog, opts, next)

\* the members realised so far: one call or one generate block each
Realised == Len(calls) + Cardinality({i \in DOMAIN syms : syms[i].kind = "GenerateBlock"})

\* a scope with unrealised members realises them, in source order
Elaborate(scope) ==
    /\ ~Running(calls)
    /\ syms[scope].pending # <<>>
    /\ Realised + Len(syms[scope].pending) <= MaxMembers
    /\ LET st == ElaborateMembers(syms[scope].pending, scope, program,
                                  [maxDepth |-> maxInstanceDepth,
                                   netType |-> defaultNetType, wraps |-> int32Wraps],
                                  [syms |-> [syms EXCEPT ![scope].pending = <<>>],
                                   diags |-> diags, calls |-> calls])
       IN  /\ syms' = st.syms
           /\ diags' = st.diags
           /\ calls' = st.calls
    /\ UNCHANGED <<program, topName, maxInstanceDepth, defaultNetType, int32Wraps>>
    /\ UNCHANGED <<lexerVars, preprocessorVars, resolutionVars, checksVars, modportVars>>

\* the root symbol and the compilation unit, the first two symbols of every compilation
RootSym == CHOOSE i \in DOMAIN syms : syms[i].kind = "Root"

UnitSym == CHOOSE i \in DOMAIN syms : syms[i].kind = "CompilationUnit"

HasRootInstance ==
    \E i \in DOMAIN syms : syms[i].parent = RootSym /\ IsInstanceKind(syms[i].kind)

\* the compilation instantiates the top module with
\* ModuleInstanceSymbol::instantiate(compilation, name, loc, definition): depth 0 and the
\* definition's own parameters
InstantiateRoot ==
    /\ ~Running(calls)
    /\ ~HasRootInstance
    /\ LET definition == GetDefinition(syms, topName)
           inst == Instantiate("ModuleInstance", topName, DeclSyntax(program, topName),
                               syms[definition].parameters, 0)
       IN  syms' = Append(syms, [inst EXCEPT !.parent = RootSym])
    /\ UNCHANGED <<program, topName, maxInstanceDepth, defaultNetType, diags, calls,
                   int32Wraps>>
    /\ UNCHANGED <<lexerVars, preprocessorVars, resolutionVars, checksVars, modportVars>>

-----------------------------------------------------------------------------
(* The programs elaborated.                                                *)

\* parameter declarations of the instantiated module: [hasPortParams, portDecls, members]
Header(hasPortParams, portDecls, members) ==
    [hasPortParams |-> hasPortParams, portDecls |-> portDecls, members |-> members]

ModuleHeaders ==
    { \* module m;
      Header(FALSE, <<>>, <<>>),
      \* module m #(parameter P = 1);
      Header(TRUE, <<ParamDecl("parameter", FALSE, <<Declarator("P", TRUE)>>)>>, <<>>),
      \* module m #(parameter P, localparam Q = 1);
      Header(TRUE, <<ParamDecl("parameter", FALSE, <<Declarator("P", FALSE)>>),
                     ParamDecl("localparam", FALSE, <<Declarator("Q", TRUE)>>)>>, <<>>),
      \* module m #(localparam P = 1, parameter type Q);
      Header(TRUE, <<ParamDecl("localparam", FALSE, <<Declarator("P", TRUE)>>),
                     ParamDecl("parameter", TRUE, <<Declarator("Q", FALSE)>>)>>, <<>>),
      \* module m #(parameter type P = int, Q);
      Header(TRUE, <<ParamDecl("parameter", TRUE, <<Declarator("P", TRUE),
                                                    Declarator("Q", FALSE)>>)>>, <<>>),
      \* module m; parameter P; localparam Q = 1;
      Header(FALSE, <<>>,
             <<BodyParam(ParamDecl("parameter", FALSE, <<Declarator("P", FALSE)>>)),
               BodyParam(ParamDecl("localparam", FALSE, <<Declarator("Q", TRUE)>>))>>),
      \* module m #(localparam P = 1); parameter Q;
      Header(TRUE, <<ParamDecl("localparam", FALSE, <<Declarator("P", TRUE)>>)>>,
             <<BodyParam(ParamDecl("parameter", FALSE, <<Declarator("Q", FALSE)>>))>>),
      \* module m #(parameter P = 1, localparam P = 2);   (a redeclared name)
      Header(TRUE, <<ParamDecl("parameter", FALSE, <<Declarator("P", TRUE)>>),
                     ParamDecl("localparam", FALSE, <<Declarator("P", TRUE)>>)>>, <<>>),
      \* module m #(parameter P = 1, P = 2);   (a redeclared name, both non-local)
      Header(TRUE, <<ParamDecl("parameter", FALSE, <<Declarator("P", TRUE),
                                                     Declarator("P", TRUE)>>)>>, <<>>),
      \* module m #(P = 1, localparam Q = 2, R = 3);   (declarations without a keyword)
      Header(TRUE, <<ParamDecl("none", FALSE, <<Declarator("P", TRUE)>>),
                     ParamDecl("localparam", FALSE, <<Declarator("Q", TRUE)>>),
                     ParamDecl("none", FALSE, <<Declarator("R", TRUE)>>)>>, <<>>),
      \* module m #(localparam P = 1, parameter Q = 2, R = 3); parameter S = 4;
      Header(TRUE, <<ParamDecl("localparam", FALSE, <<Declarator("P", TRUE)>>),
                     ParamDecl("parameter", FALSE, <<Declarator("Q", TRUE)>>),
                     ParamDecl("none", FALSE, <<Declarator("R", TRUE)>>)>>,
             <<BodyParam(ParamDecl("parameter", FALSE, <<Declarator("S", TRUE)>>))>>) }

AssignmentKinds ==
    {OrderedArgument(e) : e \in {"Literal", "DataType"}}
    \cup {NamedArgument(n, e) : n \in {"P", "Q", ""}, e \in {"Literal", "none"}}

\* #( ... ) with up to MaxAssign assignments, and no parameter assignment list at all
ParameterLists ==
    {[hasParameters |-> TRUE, assignments |-> a] : a \in SeqsUpTo(AssignmentKinds, MaxAssign)}
    \cup {[hasParameters |-> FALSE, assignments |-> <<>>]}

\* module top; <type> #(...) u(); endmodule   module m <header> endmodule
ParameterPrograms ==
    {<<ModuleDecl("top", "Module", FALSE, <<>>,
                  <<Instantiation(type, pl.hasParameters, pl.assignments,
                                  <<Instance("u", <<>>, <<>>)>>)>>),
       ModuleDecl("m", "Module", h.hasPortParams, h.portDecls, h.members)>> :
        type \in {"m"}, pl \in ParameterLists, h \in ModuleHeaders}

\* the same statement naming a module that does not exist
UnknownPrograms ==
    {<<ModuleDecl("top", "Module", FALSE, <<>>,
                  <<Instantiation("nomod", pl.hasParameters, pl.assignments,
                                  <<Instance("u", <<>>, <<>>)>>)>>)>> :
        pl \in {q \in ParameterLists : Len(q.assignments) <= 2}}

InstanceLists ==
    { \* x()
      <<Instance("x", <<>>, <<>>)>>,
      \* x(w, clk)
      <<Instance("x", <<>>, <<Connection("OrderedPortConnection", TRUE, <<"w">>),
                              Connection("OrderedPortConnection", TRUE, <<"clk">>)>>)>>,
      \* x [0:1] ()
      <<Instance("x", <<RangeDim(0, 1)>>, <<>>)>>,
      \* x [1:0][2:2] (.a(w), .b(), .*)
      <<Instance("x", <<RangeDim(1, 0), RangeDim(2, 2)>>,
                 <<Connection("NamedPortConnection", TRUE, <<"w">>),
                   Connection("NamedPortConnection", FALSE, <<>>),
                   Connection("WildcardPortConnection", FALSE, <<>>)>>)>>,
      \* x [n] ()   with n not a constant
      <<Instance("x", <<BadDim>>, <<>>)>>,
      \* x(w), y(w + v)
      <<Instance("x", <<>>, <<Connection("OrderedPortConnection", TRUE, <<"w">>)>>),
        Instance("y", <<>>, <<Connection("OrderedPortConnection", TRUE, <<"w", "v">>)>>)>> }

\* module m; m <instances>; endmodule, the statement possibly inside a generate block
RecursivePrograms ==
    {<<ModuleDecl("m", "Module", FALSE, <<>>,
                  IF wrapped
                  THEN <<GenerateBlock(<<Instantiation("m", FALSE, <<>>, il)>>)>>
                  ELSE <<Instantiation("m", FALSE, <<>>, il)>>)>> :
        il \in InstanceLists, wrapped \in BOOLEAN}

\* dimension lists of one instance name: ranges, among them one that begins at the
\* smallest int32_t, and dimensions that are no constant range
DimensionLists ==
    { <<RangeDim(0, 1)>>,
      <<RangeDim(0, -1)>>,
      <<RangeDim(1, 0), RangeDim(2, 2)>>,
      <<RangeDim(0, 1), RangeDim(3, 2)>>,
      <<RangeDim(MinInt32, MinInt32 + 1)>>,
      <<BadDim>>,
      <<RangeDim(0, 1), BadDim>>,
      <<BadDim, RangeDim(0, 1)>>,
      <<RangeDim(0, 1), BadDim, RangeDim(0, 1)>> }

\* dimension lists with a range that ends at the largest int32_t
LargestDimensionLists ==
    { <<RangeDim(MaxInt32, MaxInt32)>>,
      <<RangeDim(MaxInt32, MaxInt32 - 1)>>,
      <<RangeDim(0, 1), RangeDim(MaxInt32, MaxInt32)>> }

NoList == [hasParameters |-> FALSE, assignments |-> <<>>]

\* the parameter assignments of the array programs: none, #(2), #(.Q(2)), #(2, .P(3))
SharedLists ==
    { NoList,
      [hasParameters |-> TRUE, assignments |-> <<OrderedArgument("Literal")>>],
      [hasParameters |-> TRUE, assignments |-> <<NamedArgument("Q", "Literal")>>],
      [hasParameters |-> TRUE,
       assignments |-> <<OrderedArgument("Literal"), NamedArgument("P", "Literal")>>] }

\* module top; m <#(...)> x <dims> (w), y (w, v); endmodule
\* module m #(parameter P); endmodule
ArrayProgram(pl, dims) ==
    <<ModuleDecl("top", "Module", FALSE, <<>>,
                 <<Instantiation("m", pl.hasParameters, pl.assignments,
                       <<Instance("x", dims,
                                  <<Connection("OrderedPortConnection", TRUE, <<"w">>)>>),
                         Instance("y", <<>>,
                                  <<Connection("OrderedPortConnection", TRUE, <<"w">>),
                                    Connection("OrderedPortConnection", TRUE,
                                               <<"v">>)>>)>>)>>),
      ModuleDecl("m", "Module", TRUE,
                 <<ParamDecl("parameter", FALSE, <<Declarator("P", FALSE)>>)>>, <<>>)>>

\* every parameter list with every dimension list; the lists that reach the largest
\* int32_t come without parameter assignments
ArrayPrograms ==
    {ArrayProgram(pl, dims) : pl \in SharedLists, dims \in DimensionLists}
        \cup {ArrayProgram(NoList, dims) : dims \in LargestDimensionLists}

Definitions(prog) ==
    [i \in DOMAIN prog |->
        [Symbol("Definition", prog[i].name, 2) EXCEPT
            !.definition = prog[i].name,
            !.parameters = DefinitionFromSyntax(prog[i]),
            !.pending = DeferredMembers(prog[i].members)]]

\* the lexer, when nothing is lexed
LexerIdle ==
    /\ source = <<>>
    /\ offset = 1
    /\ tokenStream = <<>>
    /\ lexDiags = <<>>

\* the preprocessor, when nothing is preprocessed
PreprocessorIdle ==
    /\ ppInput = <<>>
    /\ ppPosition = 1
    /\ macros = <<>>
    /\ pendingTrivia = <<>>
    /\ expansion = <<>>
    /\ ppOutput = <<>>
    /\ ppDiags = <<>>

\* the type of a declared type that is not resolved
NoType == <<"none">>

\* no declared type: a type syntax or an initializer that names none
Nothing == 0

\* no request from outside was answered yet
NoResult == [declared |-> Nothing, type |-> NoType]

\* type resolution, when there is no declared type
ResolutionIdle ==
    /\ declaredTypes = <<>>
    /\ resolving = <<>>
    /\ typeDiags = <<>>
    /\ result = NoResult

\* the argument checks, when there is no call to check
ChecksIdle ==
    /\ callArgs = <<>>
    /\ checkResult = [fn |-> "none"]

\* the modport lookup, when there is no definition to look in
ModportIdle ==
    /\ defMembers = {}
    /\ lookup = [modport |-> "", range |-> 0,
                 symbol |-> [name |-> "", kind |-> "none", location |-> 0],
                 diags |-> <<>>, calls |-> 0]

\* Only the array programs have a dimension that reaches the largest int32_t, so only
\* on them do the two builds differ.
Init ==
    /\ \/ /\ program \in ParameterPrograms \cup UnknownPrograms
          /\ maxInstanceDepth \in {0, MaxDepth}
          /\ defaultNetType = "wire"
          /\ int32Wraps = FALSE
       \/ /\ program \in RecursivePrograms
          /\ maxInstanceDepth \in 0..MaxDepth
          /\ defaultNetType \in {"wire", "none"}
          /\ int32Wraps = FALSE
       \/ /\ program \in ArrayPrograms
          /\ maxInstanceDepth = MaxDepth
          /\ defaultNetType \in {"wire", "none"}
          /\ int32Wraps \in BOOLEAN
    /\ topName = program[1].name
    /\ syms = <<Symbol("Root", "$root", 0), Symbol("CompilationUnit", "", 1)>>
              \o Definitions(program)
    /\ diags = <<>>
    /\ calls = <<>>
    /\ LexerIdle
    /\ PreprocessorIdle
    /\ ResolutionIdle
    /\ ChecksIdle
    /\ ModportIdle

Next ==
    \/ InstantiateRoot
    \/ \E scope \in DOMAIN syms : Elaborate(scope)

Spec == Init /\ [][Next]_vars

-----------------------------------------------------------------------------
(* The lexer (Lexer::lex), as the specification describes it and the lexer *)
(* tests exercise it. Text is a sequence of bytes; a token holds its kind, *)
(* its leading trivia, its raw text and its value text.                    *)

\* the bytes the lexer tells apart
Char ==
    [eot |-> 4, bell |-> 7, tab |-> 9, lf |-> 10, vt |-> 11, ff |-> 12, cr |-> 13,
     space |-> 32, quote |-> 34, dollar |-> 36, star |-> 42, slash |-> 47,
     backslash |-> 92, underscore |-> 95, x |-> 120]

Digits == 48..57

OctalDigits == 48..55

\* A-Z, a-z
Letters == (65..90) \cup (97..122)

\* 0-9, A-F, a-f
HexDigits == Digits \cup (65..70) \cup (97..102)

Whitespace == {Char.space, Char.tab, Char.vt, Char.ff}

Newlines == {Char.lf, Char.cr}

Bytes == 0..255

\* [A-Za-z_] starts an identifier, [A-Za-z_0-9$] goes on with it
IdentifierStart == Letters \cup {Char.underscore}

IdentifierChars == IdentifierStart \cup Digits \cup {Char.dollar}

\* \n \t \\ \" \v \f \a, by the byte after the backslash
StandardEscapes ==
    [c \in {110, 116, Char.backslash, Char.quote, 118, 102, 97} |->
        CASE c = 110 -> Char.lf
          [] c = 116 -> Char.tab
          [] c = 118 -> Char.vt
          [] c = 102 -> Char.ff
          [] c = 97 -> Char.bell
          [] OTHER -> c]

\* the byte at a position; a position past the end holds none
AtEnd(text, i) == i > Len(text)

\* the first position from i on that holds no byte of S
RECURSIVE RunEnd(_, _, _)
RunEnd(text, i, S) ==
    IF ~AtEnd(text, i) /\ text[i] \in S THEN RunEnd(text, i + 1, S) ELSE i

\* text[i] = a and text[i + 1] = b
Pair(text, i, a, b) == /\ i + 1 <= Len(text)
                       /\ text[i] = a
                       /\ text[i + 1] = b

LexDiag(code, at) == [code |-> code, offset |-> at]

Trivia(kind, text, from, to) == [kind |-> kind, rawText |-> SubSeq(text, from, to - 1)]

\* the end of a block comment whose body begins at i: the position after its */, or
\* the end of the text; a /* inside it is diagnosed and consumed
RECURSIVE scanBlockComment(_, _, _)
scanBlockComment(text, i, ds) ==
    IF AtEnd(text, i)
    THEN [end |-> i, diags |-> Append(ds, LexDiag("UnterminatedBlockComment", i))]
    ELSE IF Pair(text, i, Char.star, Char.slash)
    THEN [end |-> i + 2, diags |-> ds]
    ELSE IF Pair(text, i, Char.slash, Char.star)
    THEN scanBlockComment(text, i + 2, Append(ds, LexDiag("NestedBlockComment", i)))
    ELSE scanBlockComment(text, i + 1, ds)

\* the position after the line ending at i: CR LF is one line ending
EndOfLineEnd(text, i) == IF Pair(text, i, Char.cr, Char.lf) THEN i + 2 ELSE i + 1

\* the leading trivia from i on. st: trivia, diags; gives them with the offset after
RECURSIVE lexTrivia(_, _, _)
lexTrivia(text, i, st) ==
    IF AtEnd(text, i) THEN [trivia |-> st.trivia, diags |-> st.diags, offset |-> i]
    ELSE IF text[i] \in Whitespace
    THEN lexTrivia(text, RunEnd(text, i, Whitespace),
             [st EXCEPT !.trivia = Append(@, Trivia("Whitespace", text, i,
                                                    RunEnd(text, i, Whitespace)))])
    ELSE IF text[i] \in Newlines
    THEN lexTrivia(text, EndOfLineEnd(text, i),
             [st EXCEPT !.trivia = Append(@, Trivia("EndOfLine", text, i,
                                                    EndOfLineEnd(text, i)))])
    ELSE IF Pair(text, i, Char.slash, Char.slash)
    THEN lexTrivia(text, RunEnd(text, i, Bytes \ Newlines),
             [st EXCEPT !.trivia = Append(@, Trivia("LineComment", text, i,
                                                    RunEnd(text, i, Bytes \ Newlines)))])
    ELSE IF Pair(text, i, Char.slash, Char.star)
    THEN lexTrivia(text, scanBlockComment(text, i + 2, <<>>).end,
             [trivia |-> Append(st.trivia,
                                Trivia("BlockComment", text, i,
                                       scanBlockComment(text, i + 2, <<>>).end)),
              diags |-> st.diags \o scanBlockComment(text, i + 2, <<>>).diags])
    ELSE [trivia |-> st.trivia, diags |-> st.diags, offset |-> i]

\* the value of a run of digits in a base
RECURSIVE DigitsValue(_, _)
DigitsValue(digits, base) ==
    IF digits = <<>> THEN 0
    ELSE DigitsValue(SubSeq(digits, 1, Len(digits) - 1), base)
             * base + digits[Len(digits)]

\* the value of a hex or decimal digit
DigitOf(c) ==
    IF c \in Digits THEN c - 48 ELSE IF c \in 97..102 THEN c - 87 ELSE c - 55

ValueOf(text, from, to, base) ==
    DigitsValue([k \in 1..(to - from) |-> DigitOf(text[from + k - 1])], base)

\* the end of an octal escape whose first digit is at j: up to three octal digits
OctalEnd(text, j) ==
    IF AtEnd(text, j + 1) \/ text[j + 1] \notin OctalDigits THEN j + 1
    ELSE IF AtEnd(text, j + 2) \/ text[j + 2] \notin OctalDigits THEN j + 2
    ELSE j + 3

Escape(end, contribution, ds) ==
    [end |-> end, contribution |-> contribution, diags |-> ds]

\* an octal escape too big for a byte, kept modulo 256
OctalEscapeWrapping(text, j) ==
    Escape(OctalEnd(text, j), <<ValueOf(text, j, OctalEnd(text, j), 8) % 256>>, <<>>)

\* \ddd: a value of 0x100 or more is diagnosed and contributes nothing
OctalEscape(text, j) ==
    IF ValueOf(text, j, OctalEnd(text, j), 8) >= 256
    THEN Escape(OctalEnd(text, j), <<>>, <<LexDiag("OctalEscapeCodeTooBig", j)>>)
    ELSE Escape(OctalEnd(text, j), <<ValueOf(text, j, OctalEnd(text, j), 8)>>, <<>>)

\* \xHH, x at j: a byte that is no hex digit after the x is diagnosed and contributes
\* itself
HexEscape(text, j) ==
    IF AtEnd(text, j + 1)
    THEN Escape(j + 1, <<>>, <<LexDiag("InvalidHexEscapeCode", j)>>)
    ELSE IF text[j + 1] \notin HexDigits
    THEN Escape(j + 2, <<text[j + 1]>>, <<LexDiag("InvalidHexEscapeCode", j)>>)
    ELSE IF ~AtEnd(text, j + 2) /\ text[j + 2] \in HexDigits
    THEN Escape(j + 3, <<ValueOf(text, j + 1, j + 3, 16)>>, <<>>)
    ELSE Escape(j + 2, <<ValueOf(text, j + 1, j + 2, 16)>>, <<>>)

\* the escape whose backslash is at j - 1
lexEscape(text, j) ==
    IF AtEnd(text, j) THEN Escape(j, <<>>, <<>>)
    ELSE IF text[j] \in DOMAIN StandardEscapes
    THEN Escape(j + 1, <<StandardEscapes[text[j]]>>, <<>>)
    ELSE IF text[j] \in Newlines THEN Escape(EndOfLineEnd(text, j), <<>>, <<>>)
    ELSE IF text[j] \in OctalDigits THEN OctalEscape(text, j)
    ELSE IF text[j] = Char.x THEN HexEscape(text, j)
    ELSE Escape(j + 1, <<text[j]>>, <<LexDiag("UnknownEscapeCode", j)>>)

Lexed(kind, end, valueText, ds) ==
    [kind |-> kind, end |-> end, valueText |-> valueText, diags |-> ds]

\* the string literal whose body goes on at i
RECURSIVE lexStringLiteral(_, _, _, _)
lexStringLiteral(text, i, valueText, ds) ==
    IF AtEnd(text, i) \/ text[i] \in Newlines
    THEN Lexed("StringLiteral", i, valueText,
               Append(ds, LexDiag("ExpectedClosingQuote", i)))
    ELSE IF text[i] = Char.quote
    THEN Lexed("StringLiteral", i + 1, valueText, ds)
    ELSE IF text[i] = Char.backslash
    THEN lexStringLiteral(text, lexEscape(text, i + 1).end,
                          valueText \o lexEscape(text, i + 1).contribution,
                          ds \o lexEscape(text, i + 1).diags)
    ELSE lexStringLiteral(text, i + 1, Append(valueText, text[i]), ds)

\* \... up to the next whitespace; the value text leaves out the backslash
lexEscapedIdentifier(text, i) ==
    IF RunEnd(text, i + 1, Bytes \ (Whitespace \cup Newlines)) = i + 1
    THEN Lexed("Unknown", i + 1, <<>>, <<LexDiag("EscapedWhitespace", i)>>)
    ELSE Lexed("Identifier", RunEnd(text, i + 1, Bytes \ (Whitespace \cup Newlines)),
                 SubSeq(text, i + 1,
                        RunEnd(text, i + 1, Bytes \ (Whitespace \cup Newlines)) - 1),
                 <<>>)

\* the token that begins at i, after the trivia
lexToken(text, i) ==
    IF AtEnd(text, i) THEN Lexed("EndOfFile", i, <<>>, <<>>)
    ELSE IF text[i] \in IdentifierStart
    THEN Lexed("Identifier", RunEnd(text, i, IdentifierChars),
                 SubSeq(text, i, RunEnd(text, i, IdentifierChars) - 1), <<>>)
    ELSE IF text[i] \in Digits
    THEN Lexed("IntegerLiteral", RunEnd(text, i, Digits),
                 SubSeq(text, i, RunEnd(text, i, Digits) - 1), <<>>)
    ELSE IF text[i] = Char.backslash THEN lexEscapedIdentifier(text, i)
    ELSE IF text[i] = Char.quote THEN lexStringLiteral(text, i + 1, <<>>, <<>>)
    ELSE IF text[i] = Char.slash THEN Lexed("Slash", i + 1, <<>>, <<>>)
    ELSE IF text[i] = Char.star THEN Lexed("Star", i + 1, <<>>, <<>>)
    ELSE Lexed("Unknown", i + 1, <<>>, <<LexDiag("NonPrintableChar", i)>>)

\* a token that does not keep its leading trivia
TokenWithoutTrivia(text, trivia, from, scanned) ==
    [kind |-> scanned.kind, trivia |-> <<>>,
     rawText |-> SubSeq(text, from, scanned.end - 1), valueText |-> scanned.valueText]

Token(text, trivia, from, scanned) ==
    [kind |-> scanned.kind, trivia |-> trivia,
     rawText |-> SubSeq(text, from, scanned.end - 1), valueText |-> scanned.valueText]

\* Lexer::lex: the next token with its leading trivia
Lex ==
    /\ \A k \in DOMAIN tokenStream : tokenStream[k].kind # "EndOfFile"
    /\ LET lead == lexTrivia(source, offset, [trivia |-> <<>>, diags |-> <<>>])
           scanned == lexToken(source, lead.offset)
       IN  /\ tokenStream' = Append(tokenStream,
                                    Token(source, lead.trivia, lead.offset, scanned))
           /\ offset' = scanned.end
           /\ lexDiags' = lexDiags \o lead.diags \o scanned.diags
    /\ UNCHANGED source
    /\ UNCHANGED <<elaborationVars, preprocessorVars, resolutionVars, checksVars,
                   modportVars>>

\* the bytes of the texts lexed: EOT, space, LF, CR, / * " \ a 4
TextBytes ==
    {Char.eot, Char.space, Char.lf, Char.cr, Char.slash, Char.star, Char.quote,
     Char.backslash, 97, 52}

\* the bytes of the string literal bodies lexed: a x z 4 \ " LF
BodyBytes == {97, Char.x, 122, 52, Char.backslash, Char.quote, Char.lf}

\* every text up to MaxText bytes, and every string literal begun with a body of up
\* to MaxBody bytes
Texts ==
    SeqsUpTo(TextBytes, MaxText)
        \cup {<<Char.quote>> \o body : body \in SeqsUpTo(BodyBytes, MaxBody)}

\* the compilation, when nothing is elaborated
ElaborationIdle ==
    /\ program = <<>>
    /\ topName = ""
    /\ maxInstanceDepth = 0
    /\ defaultNetType = "wire"
    /\ syms = <<>>
    /\ diags = <<>>
    /\ calls = <<>>
    /\ int32Wraps = FALSE

LexerInit ==
    /\ source \in Texts
    /\ offset = 1
    /\ tokenStream = <<>>
    /\ lexDiags = <<>>
    /\ ElaborationIdle
    /\ PreprocessorIdle
    /\ ResolutionIdle
    /\ ChecksIdle
    /\ ModportIdle

LexerNext == Lex

LexerSpec == LexerInit /\ [][LexerNext]_vars

-----------------------------------------------------------------------------
(* The preprocessor (Preprocessor::next), as the specification describes it *)
(* and the preprocessor tests exercise it. Its input is the directives and  *)
(* tokens the lexer hands it, in source order.                              *)

Tok(kind, text) == [kind |-> kind, text |-> text, trivia |-> <<>>]

\* `define name body, or `define name(formals) body; NoFormals for an object-like macro
NoFormals == <<"none">>

DefineDirective(name, formals, body) ==
    [kind |-> "DefineDirective", name |-> name, formalArguments |-> formals, body |-> body]

\* `name
MacroUsage(name) == [kind |-> "MacroUsage", name |-> name]

PreprocessorDiag(code, at) == [code |-> code, item |-> at]

OpenParen == Tok("OpenParenthesis", "(")

CloseParen == Tok("CloseParenthesis", ")")

\* the body with every identifier that names the formal argument replaced by the
\* actual argument
Substitute(body, formal, actual) ==
    [k \in DOMAIN body |->
        IF body[k].kind = "Identifier" /\ body[k].text = formal THEN actual ELSE body[k]]

\* the actual argument list at items p .. p + 2: ( token )
HasActual(input, p) ==
    /\ p + 2 <= Len(input)
    /\ input[p] = OpenParen
    /\ input[p + 1].kind \in {"IntegerLiteral", "Identifier"}
    /\ input[p + 2] = CloseParen

\* Preprocessor::handleDefineDirective: the macro is recorded and the directive
\* becomes trivia of the token that comes next
handleDefineDirective ==
    /\ expansion = <<>>
    /\ ppPosition <= Len(ppInput)
    /\ ppInput[ppPosition].kind = "DefineDirective"
    /\ macros' = [n \in DOMAIN macros \cup {ppInput[ppPosition].name} |->
                     IF n = ppInput[ppPosition].name THEN ppInput[ppPosition]
                     ELSE macros[n]]
    /\ pendingTrivia' = Append(pendingTrivia, ppInput[ppPosition])
    /\ ppPosition' = ppPosition + 1
    /\ UNCHANGED <<ppInput, expansion, ppOutput, ppDiags>>
    /\ UNCHANGED <<elaborationVars, lexerVars, resolutionVars, checksVars, modportVars>>

\* a macro usage, when no macro of that name is defined
UnknownMacro ==
    /\ ppInput[ppPosition].name \notin DOMAIN macros
    /\ ppDiags' = Append(ppDiags, PreprocessorDiag("UnknownDirective", ppPosition))
    /\ ppPosition' = ppPosition + 1
    /\ UNCHANGED expansion

\* an object-like macro: its body is what comes next
ObjectLikeMacro ==
    /\ ppInput[ppPosition].name \in DOMAIN macros
    /\ macros[ppInput[ppPosition].name].formalArguments = NoFormals
    /\ expansion' = macros[ppInput[ppPosition].name].body
    /\ ppPosition' = ppPosition + 1
    /\ UNCHANGED ppDiags

\* a function-like macro: its body with the actual argument in it, or a diagnostic
\* when no argument list follows
FunctionLikeMacro ==
    /\ ppInput[ppPosition].name \in DOMAIN macros
    /\ macros[ppInput[ppPosition].name].formalArguments # NoFormals
    /\ IF HasActual(ppInput, ppPosition + 1)
       THEN /\ expansion' = Substitute(macros[ppInput[ppPosition].name].body,
                                       macros[ppInput[ppPosition].name].formalArguments[1],
                                       ppInput[ppPosition + 2])
            /\ ppPosition' = ppPosition + 4
            /\ UNCHANGED ppDiags
       ELSE /\ ppDiags' = Append(ppDiags, PreprocessorDiag("ExpectedMacroArgs", ppPosition))
            /\ ppPosition' = ppPosition + 1
            /\ UNCHANGED expansion

\* Preprocessor::handleMacroUsage
handleMacroUsage ==
    /\ expansion = <<>>
    /\ ppPosition <= Len(ppInput)
    /\ ppInput[ppPosition].kind = "MacroUsage"
    /\ \/ UnknownMacro
       \/ ObjectLikeMacro
       \/ FunctionLikeMacro
    /\ UNCHANGED <<ppInput, macros, pendingTrivia, ppOutput>>
    /\ UNCHANGED <<elaborationVars, lexerVars, resolutionVars, checksVars, modportVars>>

\* a token given out without the trivia met before it
EmitWithoutTrivia(token) ==
    /\ ppOutput' = Append(ppOutput, token)
    /\ pendingTrivia' = <<>>

\* the token given out next holds the trivia met since the last one
Emit(token) ==
    /\ ppOutput' = Append(ppOutput, [token EXCEPT !.trivia = pendingTrivia])
    /\ pendingTrivia' = <<>>

EndOfFileToken == Tok("EndOfFile", "")

\* Preprocessor::next, when a token is at hand: the next token of the macro body that
\* is being expanded, or else the next token of the input, or else EndOfFile
nextToken ==
    /\ \A k \in DOMAIN ppOutput : ppOutput[k].kind # "EndOfFile"
    /\ IF expansion # <<>>
       THEN /\ Emit(Head(expansion))
            /\ expansion' = Tail(expansion)
            /\ UNCHANGED ppPosition
       ELSE IF ppPosition > Len(ppInput)
       THEN /\ Emit(EndOfFileToken)
            /\ UNCHANGED <<expansion, ppPosition>>
       ELSE /\ ppInput[ppPosition].kind \notin {"DefineDirective", "MacroUsage"}
            /\ Emit(ppInput[ppPosition])
            /\ ppPosition' = ppPosition + 1
            /\ UNCHANGED expansion
    /\ UNCHANGED <<ppInput, macros, ppDiags>>
    /\ UNCHANGED <<elaborationVars, lexerVars, resolutionVars, checksVars, modportVars>>

\* the tokens of the inputs: 42 1 a + ( )
InputTokens ==
    {Tok("IntegerLiteral", "42"), Tok("Identifier", "a"), OpenParen, CloseParen}

\* the macro bodies of the inputs: nothing, 42, (1), a+1
Bodies ==
    <<<<>>,
      <<Tok("IntegerLiteral", "42")>>,
      <<OpenParen, Tok("IntegerLiteral", "1"), CloseParen>>,
      <<Tok("Identifier", "a"), Tok("Plus", "+"), Tok("IntegerLiteral", "1")>>>>

MacroNames == {"FOO", "BAR"}

\* `define FOO(a) a+1
FunctionLike == DefineDirective("FOO", <<"a">>, Bodies[4])

Defines ==
    {DefineDirective("FOO", NoFormals, Bodies[k]) : k \in 1..3}
        \cup {DefineDirective("BAR", NoFormals, Bodies[2]), FunctionLike}

InputItems == InputTokens \cup Defines \cup {MacroUsage(name) : name \in MacroNames}

\* every input of up to MaxItems items
Inputs == SeqsUpTo(InputItems, MaxItems)

\* the inputs that use the function-like macro with an argument: `FOO(42), `FOO(a)
ArgumentInputs ==
    {<<FunctionLike, MacroUsage("FOO"), OpenParen, actual, CloseParen>> \o rest :
        actual \in {Tok("IntegerLiteral", "42"), Tok("Identifier", "a")},
        rest \in SeqsUpTo(InputItems, MaxItems - 3)}

PreprocessorInit ==
    /\ ppInput \in Inputs \cup ArgumentInputs
    /\ ppPosition = 1
    /\ macros = <<>>
    /\ pendingTrivia = <<>>
    /\ expansion = <<>>
    /\ ppOutput = <<>>
    /\ ppDiags = <<>>
    /\ ElaborationIdle
    /\ LexerIdle
    /\ ResolutionIdle
    /\ ChecksIdle
    /\ ModportIdle

PreprocessorNext ==
    \/ handleDefineDirective
    \/ handleMacroUsage
    \/ nextToken

PreprocessorSpec == PreprocessorInit /\ [][PreprocessorNext]_vars

-----------------------------------------------------------------------------
(* Lazy type resolution (DeclaredType), as the specification describes it. *)
(* A declared type names, in its type syntax and in its initializer, at    *)
(* most one other declared type each, whose type its own resolution asks   *)
(* for. The calls in progress are a stack of frames.                       *)

ErrorType == <<"ErrorType">>

DeclaredTypes == 1..MaxTypes

\* the type a resolution gives when none of its requests gave ErrorType
TypeOf(d) == <<"type", d>>

DeclaredType(typeSyntax, initializer) ==
    [typeSyntax |-> typeSyntax, initializer |-> initializer,
     state |-> "NotStarted", type |-> NoType, resolutions |-> 0, cleared |-> 0]

\* a call of DeclaredType::resolveAt in progress: what it resolves, how far it is
\* (1: the type syntax, 2: the initializer, 3: done with both), and the types its
\* requests gave
Frame(d) == [declared |-> d, step |-> 1, got |-> <<>>]

Top == resolving[Len(resolving)]

\* the declared type the top frame asks for next
Wanted ==
    IF Top.step = 1 THEN declaredTypes[Top.declared].typeSyntax
    ELSE IF Top.step = 2 THEN declaredTypes[Top.declared].initializer
    ELSE Nothing

\* the top frame goes on, with the type its request gave
GoOn(got) ==
    [resolving EXCEPT ![Len(resolving)] =
        [@ EXCEPT !.step = @ + 1, !.got = @ \o got]]

\* a request for a declared type whose resolution is in progress, answered with the
\* type it holds so far
ReentryUnnoticed ==
    /\ resolving' = GoOn(<<declaredTypes[Wanted].type>>)
    /\ UNCHANGED <<declaredTypes, typeDiags>>

\* a request for a declared type whose resolution is in progress: ErrorType and a
\* diagnostic, and no resolution of it is begun
Reentry ==
    /\ resolving' = GoOn(<<ErrorType>>)
    /\ typeDiags' = Append(typeDiags, [code |-> "RecursiveResolution", declared |-> Wanted])
    /\ UNCHANGED declaredTypes

\* DeclaredType::getType, asked from outside every resolution
getType(d) ==
    /\ resolving = <<>>
    /\ IF declaredTypes[d].state = "Resolved"
       THEN /\ result' = [declared |-> d, type |-> declaredTypes[d].type]
            /\ UNCHANGED <<declaredTypes, resolving>>
       ELSE /\ declaredTypes' = [declaredTypes EXCEPT ![d].state = "InProgress"]
            /\ resolving' = <<Frame(d)>>
            /\ result' = NoResult
    /\ UNCHANGED <<typeDiags>>
    /\ UNCHANGED <<elaborationVars, lexerVars, preprocessorVars, checksVars, modportVars>>

\* the resolution of the top frame is done: the type is kept, and given to whoever
\* asked from outside
Finish ==
    LET d == Top.declared
        type == IF ErrorType \in Range(Top.got) THEN ErrorType ELSE TypeOf(d)
    IN  /\ declaredTypes' = [declaredTypes EXCEPT ![d].state = "Resolved",
                                                  ![d].type = type,
                                                  ![d].resolutions = @ + 1]
        /\ resolving' = SubSeq(resolving, 1, Len(resolving) - 1)
        /\ result' = IF Len(resolving) = 1 THEN [declared |-> d, type |-> type]
                     ELSE result
        /\ UNCHANGED typeDiags

\* DeclaredType::resolveAt, one step of the call on top of the stack: it asks for the
\* type of what its syntax names
resolveAt ==
    /\ resolving # <<>>
    /\ IF Top.step = 3 THEN Finish
       ELSE /\ UNCHANGED result
            /\ IF Wanted = Nothing
               THEN /\ resolving' = GoOn(<<>>)
                    /\ UNCHANGED <<declaredTypes, typeDiags>>
               ELSE IF declaredTypes[Wanted].state = "Resolved"
               THEN /\ resolving' = GoOn(<<declaredTypes[Wanted].type>>)
                    /\ UNCHANGED <<declaredTypes, typeDiags>>
               ELSE IF declaredTypes[Wanted].state = "InProgress"
               THEN Reentry
               ELSE /\ declaredTypes' = [declaredTypes EXCEPT ![Wanted].state = "InProgress"]
                    /\ resolving' = Append(resolving, Frame(Wanted))
                    /\ UNCHANGED typeDiags
    /\ UNCHANGED <<elaborationVars, lexerVars, preprocessorVars, checksVars, modportVars>>

Cleared(d) ==
    [declaredTypes EXCEPT ![d].state = "NotStarted", ![d].type = NoType,
                          ![d].cleared = @ + 1]

\* the clears of all declared types
RECURSIVE Clears(_, _)
Clears(dts, n) == IF n = 0 THEN 0 ELSE dts[n].cleared + Clears(dts, n - 1)

\* DeclaredType::clearResolved, as InstanceSymbol::fromSyntax calls it on the clone of
\* a parameter that is not overridden
clearResolved(d) ==
    /\ resolving = <<>>
    /\ Clears(declaredTypes, MaxTypes) < MaxClears
    /\ declaredTypes' = Cleared(d)
    /\ UNCHANGED <<resolving, typeDiags, result>>
    /\ UNCHANGED <<elaborationVars, lexerVars, preprocessorVars, checksVars, modportVars>>

\* InstanceSymbol::fromSyntax on the clone of an overridden parameter: the initializer
\* is set, the resolved type is cleared and the type is resolved again
Override(d, e) ==
    /\ resolving = <<>>
    /\ Clears(declaredTypes, MaxTypes) < MaxClears
    /\ declaredTypes' = [Cleared(d) EXCEPT ![d].initializer = e, ![d].state = "InProgress"]
    /\ resolving' = <<Frame(d)>>
    /\ result' = NoResult
    /\ UNCHANGED typeDiags
    /\ UNCHANGED <<elaborationVars, lexerVars, preprocessorVars, checksVars, modportVars>>

ResolutionInit ==
    /\ declaredTypes \in
           [DeclaredTypes -> {DeclaredType(t, i) : t, i \in DeclaredTypes \cup {Nothing}}]
    /\ resolving = <<>>
    /\ typeDiags = <<>>
    /\ result = NoResult
    /\ ElaborationIdle
    /\ LexerIdle
    /\ PreprocessorIdle
    /\ ChecksIdle
    /\ ModportIdle

ResolutionNext ==
    \/ \E d \in DeclaredTypes : getType(d)
    \/ resolveAt
    \/ \E d \in DeclaredTypes : clearResolved(d)
    \/ \E d \in DeclaredTypes : \E e \in DeclaredTypes \cup {Nothing} : Override(d, e)

\* a resolution, once asked for, runs until it returns: the computation is single-
\* threaded and nothing preempts it
ResolutionSpec == ResolutionInit /\ [][ResolutionNext]_vars /\ WF_vars(resolveAt)

-----------------------------------------------------------------------------
(* The argument checks of system subroutines (SystemSubroutine.cpp):       *)
(* checkArgCount, checkFormatArgs, checkFormatValues and                   *)
(* SimpleSystemSubroutine::checkArguments.                                 *)
(* An argument is a bound expression, held as: its kind; what              *)
(* SFormat::isArgTypeValid and SFormat::isRealToInt say of its type and    *)
(* the specifier it meets (fits); whether its type is an aggregate that is *)
(* no byte array (unspecified); and, for a string literal, whether         *)
(* SFormat::parseArgs accepts its text (parses) and how many specifiers it *)
(* finds there (specs). Arguments are counted from 0, as in the source.    *)

Argument(kind, fits, unspecified, parses, specs) ==
    [kind |-> kind, fits |-> fits, unspecified |-> unspecified, parses |-> parses,
     specs |-> specs]

Arguments ==
    {Argument(k, f, FALSE, FALSE, 0) :
        k \in {"EmptyArgument", "Invalid"}, f \in {"valid", "mismatch"}}
    \cup {Argument("StringLiteral", f, FALSE, TRUE, n) :
             f \in {"valid", "mismatch"}, n \in 0..MaxSpecs}
    \cup {Argument("StringLiteral", f, FALSE, FALSE, 0) : f \in {"valid", "mismatch"}}
    \cup {Argument("NamedValue", f, u, FALSE, 0) :
             f \in {"valid", "realToInt", "mismatch"}, u \in BOOLEAN}

\* Expression::bad
Bad(arg) == arg.kind = "Invalid"

BindDiag(code, at, values) == [code |-> code, at |-> at, values |-> values]

\* args[i]->sourceRange; reading past the end of args is out of bounds
ArgRange(args, i) == IF i < Len(args) THEN <<"arg", i>> ELSE <<"outOfBounds", i>>

CallRange == <<"call", 0>>

\* the range of the k-th specifier of the format string that is argument fmt
SpecRange(fmt, k) == <<"spec", fmt, k>>

\* what SFormat::parseArgs adds when it rejects a format string
ParseDiags(fmt) == <<BindDiag("SFormatParse", <<"arg", fmt>>, <<>>)>>

\* the check that takes the receiver of a method call for an argument passed
checkArgCountCountingReceiver(args, isMethod, min, max) ==
    IF Len(args) < min
    THEN [ret |-> FALSE,
          diags |-> <<BindDiag("TooFewArguments", CallRange, <<min, Len(args)>>)>>]
    ELSE IF Len(args) > max
    THEN [ret |-> FALSE,
          diags |-> <<BindDiag("TooManyArguments", ArgRange(args, max),
                               <<max, Len(args)>>)>>]
    ELSE [ret |-> \A a \in DOMAIN args : ~Bad(args[a]), diags |-> <<>>]

checkArgCount(args, isMethod, min, max) ==
    LET provided == IF isMethod THEN Len(args) - 1 ELSE Len(args)
    IN  IF provided < min
        THEN [ret |-> FALSE,
              diags |-> <<BindDiag("TooFewArguments", CallRange, <<min, provided>>)>>]
        ELSE IF provided > max
        THEN [ret |-> FALSE,
              diags |-> <<BindDiag("TooManyArguments", ArgRange(args, max),
                                   <<max, provided>>)>>]
        ELSE IF \E a \in DOMAIN args : Bad(args[a])
        THEN [ret |-> FALSE, diags |-> <<>>]
        ELSE [ret |-> TRUE, diags |-> <<>>]

\* checkFormatArgs returns false from inside the loop, at argument argIt. st: specs
\* (the size of the specifier vector), specIt (specifiers consumed), fmt (the argument
\* the specifiers were parsed from), diags
ReturnFalse(st, argIt, ds) ==
    [ret |-> FALSE, diags |-> st.diags \o ds, scanned |-> argIt + 1, ended |-> FALSE,
     specs |-> st.specs, specIt |-> st.specIt, fmt |-> st.fmt]

\* lines 118-125: the loop has ended; every specifier left is diagnosed
AfterTheLoop(st, argIt) ==
    [ret |-> st.specIt = st.specs,
     diags |-> st.diags \o [k \in 1..(st.specs - st.specIt) |->
                               BindDiag("FormatNoArgument",
                                        SpecRange(st.fmt, st.specIt + k - 1), <<>>)],
     scanned |-> argIt, ended |-> TRUE,
     specs |-> st.specs, specIt |-> st.specIt, fmt |-> st.fmt]

\* the argument meets the next specifier, which it consumes
ConsumeSpecifier(st, arg, argIt) ==
    [st EXCEPT !.specIt = @ + 1,
               !.diags = IF arg.fits = "realToInt"
                         THEN Append(@, BindDiag("FormatRealInt", <<"arg", argIt>>,
                                                 SpecRange(st.fmt, st.specIt)))
                         ELSE @]

\* the loop of checkFormatArgs that goes on after a mismatched argument
RECURSIVE FormatArgsNotStopping(_, _, _)
FormatArgsNotStopping(args, argIt, st) ==
    IF argIt >= Len(args) THEN AfterTheLoop(st, argIt)
    ELSE
    LET arg == args[argIt + 1]
    IN  IF arg.kind = "EmptyArgument"
        THEN IF st.specIt = st.specs
             THEN FormatArgsNotStopping(args, argIt + 1, st)
             ELSE ReturnFalse([st EXCEPT !.specIt = @ + 1], argIt,
                              <<BindDiag("FormatEmptyArg", <<"arg", argIt>>,
                                         SpecRange(st.fmt, st.specIt))>>)
        ELSE IF Bad(arg) THEN ReturnFalse(st, argIt, <<>>)
        ELSE IF st.specIt = st.specs
        THEN IF arg.kind = "StringLiteral"
             THEN IF ~arg.parses THEN ReturnFalse(st, argIt, ParseDiags(argIt))
                  ELSE FormatArgsNotStopping(args, argIt + 1,
                           [st EXCEPT !.specs = arg.specs, !.specIt = 0, !.fmt = argIt])
             ELSE IF arg.unspecified
             THEN ReturnFalse(st, argIt,
                              <<BindDiag("FormatUnspecifiedType", <<"arg", argIt>>, <<>>)>>)
             ELSE FormatArgsNotStopping(args, argIt + 1, st)
        ELSE IF arg.fits = "mismatch"
        THEN FormatArgsNotStopping(args, argIt + 1,
                 [st EXCEPT !.specIt = @ + 1,
                            !.diags = Append(@, BindDiag("FormatMismatchedType",
                                                         <<"arg", argIt>>,
                                                         SpecRange(st.fmt, st.specIt)))])
        ELSE FormatArgsNotStopping(args, argIt + 1, ConsumeSpecifier(st, arg, argIt))

\* the loop of lines 63-116 of checkFormatArgs, from argument argIt on
RECURSIVE FormatArgsFrom(_, _, _)
FormatArgsFrom(args, argIt, st) ==
    IF argIt >= Len(args) THEN AfterTheLoop(st, argIt)
    ELSE
    LET arg == args[argIt + 1]
    IN  IF arg.kind = "EmptyArgument"
        THEN IF st.specIt = st.specs
             THEN FormatArgsFrom(args, argIt + 1, st)
             ELSE ReturnFalse([st EXCEPT !.specIt = @ + 1], argIt,
                              <<BindDiag("FormatEmptyArg", <<"arg", argIt>>,
                                         SpecRange(st.fmt, st.specIt))>>)
        ELSE IF Bad(arg) THEN ReturnFalse(st, argIt, <<>>)
        ELSE IF st.specIt = st.specs
        THEN IF arg.kind = "StringLiteral"
             THEN IF ~arg.parses THEN ReturnFalse(st, argIt, ParseDiags(argIt))
                  ELSE FormatArgsFrom(args, argIt + 1,
                           [st EXCEPT !.specs = arg.specs, !.specIt = 0, !.fmt = argIt])
             ELSE IF arg.unspecified
             THEN ReturnFalse(st, argIt,
                              <<BindDiag("FormatUnspecifiedType", <<"arg", argIt>>, <<>>)>>)
             ELSE FormatArgsFrom(args, argIt + 1, st)
        ELSE IF arg.fits = "mismatch"
        THEN ReturnFalse([st EXCEPT !.specIt = @ + 1], argIt,
                         <<BindDiag("FormatMismatchedType", <<"arg", argIt>>,
                                    SpecRange(st.fmt, st.specIt))>>)
        ELSE FormatArgsFrom(args, argIt + 1, ConsumeSpecifier(st, arg, argIt))

\* the specifier vector is empty when the scan begins
NoSpecifiers == [specs |-> 0, specIt |-> 0, fmt |-> 0, diags |-> <<>>]

\* the loop of checkFormatValues that returns at the first mismatched argument
RECURSIVE FormatValuesStopping(_, _, _, _)
FormatValuesStopping(args, specs, k, st) ==
    IF k >= specs \/ ~st.ok THEN st
    ELSE IF st.argIndex >= Len(args)
    THEN FormatValuesStopping(args, specs, k + 1,
             [st EXCEPT !.ok = FALSE,
                        !.diags = Append(@, BindDiag("FormatNoArgument",
                                                     SpecRange(0, k), <<>>))])
    ELSE FormatValuesStopping(args, specs, k + 1,
             [st EXCEPT !.argIndex = @ + 1,
                        !.read = @ \cup {st.argIndex},
                        !.ok = @ /\ args[st.argIndex + 1].fits # "mismatch",
                        !.diags = IF args[st.argIndex + 1].fits = "valid" THEN @
                                  ELSE Append(@, BindDiag(
                                           IF args[st.argIndex + 1].fits = "realToInt"
                                           THEN "FormatRealInt"
                                           ELSE "FormatMismatchedType",
                                           ArgRange(args, st.argIndex), SpecRange(0, k)))])

\* the loop of lines 151-172 over the specifiers, from the k-th on. st: ok, argIndex,
\* diags, and read, the indices args was read at
RECURSIVE FormatValuesFrom(_, _, _, _)
FormatValuesFrom(args, specs, k, st) ==
    IF k >= specs THEN st
    ELSE IF st.argIndex >= Len(args)
    THEN FormatValuesFrom(args, specs, k + 1,
             [st EXCEPT !.ok = FALSE,
                        !.diags = Append(@, BindDiag("FormatNoArgument",
                                                     SpecRange(0, k), <<>>))])
    ELSE FormatValuesFrom(args, specs, k + 1,
             [st EXCEPT !.argIndex = @ + 1,
                        !.read = @ \cup {st.argIndex},
                        !.ok = @ /\ args[st.argIndex + 1].fits # "mismatch",
                        !.diags = IF args[st.argIndex + 1].fits = "valid" THEN @
                                  ELSE Append(@, BindDiag(
                                           IF args[st.argIndex + 1].fits = "realToInt"
                                           THEN "FormatRealInt"
                                           ELSE "FormatMismatchedType",
                                           ArgRange(args, st.argIndex), SpecRange(0, k)))])

\* lines 174-179: an argument is left when the specifiers are through
TooManyArgs(args, loop) ==
    IF loop.argIndex < Len(args)
    THEN [ret |-> FALSE,
          diags |-> Append(loop.diags, BindDiag("FormatTooManyArgs",
                                                ArgRange(args, loop.argIndex), <<>>)),
          read |-> loop.read \cup {loop.argIndex}]
    ELSE [ret |-> loop.ok, diags |-> loop.diags, read |-> loop.read]

FormatValues(args) ==
    IF args[1].kind # "StringLiteral"
    THEN [ret |-> TRUE, diags |-> <<>>, read |-> {0}]
    ELSE IF ~args[1].parses
    THEN [ret |-> FALSE, diags |-> ParseDiags(0), read |-> {0}]
    ELSE TooManyArgs(args, FormatValuesFrom(args, args[1].specs, 0,
                               [ok |-> TRUE, argIndex |-> 1, diags |-> <<>>,
                                read |-> {0}]))

\* no check was made yet
NoCheck == [fn |-> "none"]

\* SimpleSystemSubroutine::checkArguments, of a subroutine with requiredArgs required
\* arguments and argTypes.size() argument types. A method call has its receiver as
\* args[0] (the ASSERT of line 37).
checkArguments(isMethod, requiredArgs, argTypes) ==
    /\ checkResult = NoCheck
    /\ isMethod => callArgs # <<>>
    /\ LET counted == checkArgCount(callArgs, isMethod, requiredArgs, argTypes)
       IN  checkResult' = [fn |-> "checkArguments", isMethod |-> isMethod,
                           min |-> requiredArgs, max |-> argTypes,
                           ret |-> counted.ret, diags |-> counted.diags,
                           type |-> IF counted.ret THEN "returnType" ELSE "ErrorType"]
    /\ UNCHANGED callArgs
    /\ UNCHANGED <<elaborationVars, lexerVars, preprocessorVars, resolutionVars,
                   modportVars>>

checkFormatArgs ==
    /\ checkResult = NoCheck
    /\ LET scan == FormatArgsFrom(callArgs, 0, NoSpecifiers)
       IN  checkResult' = [fn |-> "checkFormatArgs", ret |-> scan.ret,
                           diags |-> scan.diags, scanned |-> scan.scanned,
                           ended |-> scan.ended, specs |-> scan.specs,
                           specIt |-> scan.specIt, fmt |-> scan.fmt]
    /\ UNCHANGED callArgs
    /\ UNCHANGED <<elaborationVars, lexerVars, preprocessorVars, resolutionVars,
                   modportVars>>

\* checkFormatValues reads args[0]: its callers pass the format argument
checkFormatValues ==
    /\ checkResult = NoCheck
    /\ callArgs # <<>>
    /\ LET checked == FormatValues(callArgs)
       IN  checkResult' = [fn |-> "checkFormatValues", ret |-> checked.ret,
                           diags |-> checked.diags, read |-> checked.read]
    /\ UNCHANGED callArgs
    /\ UNCHANGED <<elaborationVars, lexerVars, preprocessorVars, resolutionVars,
                   modportVars>>

\* the argument counts a subroutine is declared with: requiredArgs <= argTypes.size()
ArgCounts == {c \in (0..MaxCount) \X (0..MaxCount) : c[1] <= c[2]}

ChecksInit ==
    /\ callArgs \in SeqsUpTo(Arguments, MaxArgs)
    /\ checkResult = NoCheck
    /\ ElaborationIdle
    /\ LexerIdle
    /\ PreprocessorIdle
    /\ ResolutionIdle
    /\ ModportIdle

ChecksNext ==
    \/ \E isMethod \in BOOLEAN : \E c \in ArgCounts : checkArguments(isMethod, c[1], c[2])
    \/ checkFormatArgs
    \/ checkFormatValues

ChecksSpec == ChecksInit /\ [][ChecksNext]_vars

-----------------------------------------------------------------------------
(* DefinitionSymbol::getModportOrError. The members of the definition are  *)
(* symbols [name, kind, location], no two of one name.                     *)

Member(name, kind, location) == [name |-> name, kind |-> kind, location |-> location]

NoSymbol == Member("", "none", 0)

\* Scope::find: the member of that name, if there is one
find(S, name) ==
    IF \E m \in S : m.name = name THEN CHOOSE m \in S : m.name = name ELSE NoSymbol

\* the lookup that gives whatever member it finds
ModportOfAnyKind(S, definitionName, modport, range) ==
    [symbol |-> IF modport = "" THEN NoSymbol ELSE find(S, modport),
     diags |-> IF modport # "" /\ find(S, modport) = NoSymbol
               THEN <<[code |-> "UnknownMember", at |-> range,
                       values |-> <<modport, definitionName>>, notes |-> <<>>]>>
               ELSE <<>>]

\* what getModportOrError returns (NoSymbol: nullptr) and the diagnostics it adds
ModportOrError(S, definitionName, modport, range) ==
    IF modport = "" THEN [symbol |-> NoSymbol, diags |-> <<>>]
    ELSE
    LET symbol == find(S, modport)
    IN  IF symbol = NoSymbol
        THEN [symbol |-> NoSymbol,
              diags |-> <<[code |-> "UnknownMember", at |-> range,
                           values |-> <<modport, definitionName>>, notes |-> <<>>]>>]
        ELSE IF symbol.kind # "Modport"
        THEN [symbol |-> NoSymbol,
              diags |-> <<[code |-> "NotAModport", at |-> range,
                           values |-> <<modport>>,
                           notes |-> <<[code |-> "NoteDeclarationHere",
                                        at |-> symbol.location]>>]>>]
        ELSE [symbol |-> symbol, diags |-> <<>>]

NoLookup == [modport |-> "", range |-> 0, symbol |-> NoSymbol, diags |-> <<>>, calls |-> 0]

\* a call of getModportOrError on the definition, the call before forgotten
getModportOrError(modport, range) ==
    /\ LET got == ModportOrError(defMembers, "I", modport, range)
       IN  lookup' = [modport |-> modport, range |-> range, symbol |-> got.symbol,
                      diags |-> got.diags, calls |-> 1]
    /\ UNCHANGED defMembers
    /\ UNCHANGED <<elaborationVars, lexerVars, preprocessorVars, resolutionVars,
                   checksVars>>

MemberNames == {"mp", "x", "q"}

MemberKinds == {"Modport", "Net", "Parameter"}

\* interface I; with any of the members mp, x and q, each of any kind
ModportInit ==
    /\ \E names \in SUBSET MemberNames :
          \E kindOf \in [names -> MemberKinds] :
              defMembers = {Member(n, kindOf[n], <<"member", n>>) : n \in names}
    /\ lookup = NoLookup
    /\ ElaborationIdle
    /\ LexerIdle
    /\ PreprocessorIdle
    /\ ResolutionIdle
    /\ ChecksIdle

ModportNext ==
    \E modport \in MemberNames \cup {"", "zz"} : \E range \in 1..2 :
        getModportOrError(modport, range)

ModportSpec == ModportInit /\ [][ModportNext]_vars

-----------------------------------------------------------------------------
(* Properties.                                                             *)

RECURSIVE ProperAncestors(_, _)
ProperAncestors(S, i) ==
    IF S[i].parent = 0 THEN {} ELSE {S[i].parent} \cup ProperAncestors(S, S[i].parent)

\* the instances among a scope and its ancestors
EnclosingInstances(scope) ==
    {a \in {scope} \cup ProperAncestors(syms, scope) : IsInstanceKind(syms[a].kind)}

\* the nearest of them: all the others are its ancestors
NearestInstance(scope) ==
    CHOOSE a \in EnclosingInstances(scope) :
        EnclosingInstances(scope) \ {a} \subseteq ProperAncestors(syms, a)

CountCode(ds, code) == Cardinality({k \in DOMAIN ds : ds[k].code = code})

\* the call's statement names a module of the program
Resolves(c) == \E j \in DOMAIN program : program[j].name = c.syntax.type

\* the symbols of results that are not implicit nets
Instantiated(c) == SelectSeq(c.results, LAMBDA i : syms[i].kind # "Net")

\* C1: a call whose definition resolves refuses to instantiate exactly when the depth
\* limit is exceeded: if the nearest enclosing instance has depth d and
\* d + 1 > maxInstanceDepth, the call emits exactly one MaxInstanceDepthExceeded and
\* appends nothing to results; if d + 1 <= maxInstanceDepth or no instance encloses the
\* statement, it emits no MaxInstanceDepthExceeded and, when it returns, every instance
\* name has a symbol.
C1_DepthLimitRefusal ==
    \A k \in DOMAIN calls :
        LET c == calls[k]
        IN  Resolves(c) =>
                IF /\ EnclosingInstances(c.scope) # {}
                   /\ syms[NearestInstance(c.scope)].hierarchyDepth + 1 > maxInstanceDepth
                THEN /\ CountCode(c.diags, "MaxInstanceDepthExceeded") = 1
                     /\ c.results = <<>>
                ELSE /\ CountCode(c.diags, "MaxInstanceDepthExceeded") = 0
                     /\ c.returned => Len(Instantiated(c)) = Len(c.syntax.instances)

\* a refused statement that names an instance array and connects an undeclared
\* identifier, in a scope whose default net type would have made an implicit net
C1_Witness ==
    \E k \in DOMAIN calls :
        /\ Resolves(calls[k])
        /\ CountCode(calls[k].diags, "MaxInstanceDepthExceeded") = 1
        /\ calls[k].results = <<>>
        /\ defaultNetType = "wire"
        /\ \E n \in DOMAIN calls[k].syntax.instances :
              /\ calls[k].syntax.instances[n].dimensions # <<>>
              /\ \E j \in DOMAIN calls[k].syntax.instances[n].connections :
                    "w" \in Range(calls[k].syntax.instances[n].connections[j].idents)

\* module m; m x(); endmodule
SelfInstantiating ==
    program = <<ModuleDecl("m", "Module", FALSE, <<>>,
                           <<Instantiation("m", FALSE, <<>>,
                                           <<Instance("x", <<>>, <<>>)>>)>>)>>

RootInstance ==
    CHOOSE i \in DOMAIN syms : syms[i].parent = RootSym /\ IsInstanceKind(syms[i].kind)

\* the root instance and everything below it
RootTree ==
    {i \in DOMAIN syms : i = RootInstance \/ RootInstance \in ProperAncestors(syms, i)}

RootTreeInstances == {i \in RootTree : IsInstanceKind(syms[i].kind)}

RootTreeRefusals ==
    {k \in DOMAIN diags : /\ diags[k].code = "MaxInstanceDepthExceeded"
                          /\ diags[k].scope \in RootTree}

\* C2: elaborating module m; m x(); endmodule from its root instance with
\* maxInstanceDepth = N ends: the instances below the root are nested one in the other
\* at depths 0, 1, ..., never more than N + 1 of them; MaxInstanceDepthExceeded is
\* emitted exactly once, by the elaboration of the instance of depth N, and not before;
\* and once every instance is elaborated there are exactly N + 1 instances and that one
\* diagnostic.
C2_SelfInstantiationEnds ==
    (SelfInstantiating /\ HasRootInstance) =>
        LET n == Cardinality(RootTreeInstances)
            deepest == CHOOSE i \in RootTreeInstances : syms[i].hierarchyDepth = n - 1
        IN  /\ {syms[i].hierarchyDepth : i \in RootTreeInstances} = 0..(n - 1)
            /\ n <= maxInstanceDepth + 1
            /\ \A i \in RootTreeInstances \ {RootInstance} :
                  /\ syms[i].parent \in RootTreeInstances
                  /\ syms[syms[i].parent].hierarchyDepth = syms[i].hierarchyDepth - 1
            /\ Cardinality(RootTreeRefusals) =
                  IF n = maxInstanceDepth + 1 /\ syms[deepest].pending = <<>> THEN 1 ELSE 0
            /\ \A k \in RootTreeRefusals : diags[k].scope = deepest
            /\ (\A i \in RootTreeInstances : syms[i].pending = <<>>) =>
                  /\ n = maxInstanceDepth + 1
                  /\ Cardinality(RootTreeRefusals) = 1

\* the elaboration has ended at the largest depth limit tried
C2_Witness ==
    /\ SelfInstantiating
    /\ HasRootInstance
    /\ maxInstanceDepth = MaxDepth
    /\ Cardinality(RootTreeInstances) = MaxDepth + 1
    /\ \A i \in RootTreeInstances : syms[i].pending = <<>>
    /\ Cardinality(RootTreeRefusals) = 1

\* the symbol's parent-scope chain reaches the root: it is part of the hierarchy
InHierarchy(i) == RootSym \in ProperAncestors(syms, i)

\* C3: the hierarchyDepth of every instance symbol of the hierarchy is the number of
\* instance symbols among its proper ancestors in the parent-scope chain (arrays,
\* generate blocks, definitions, the compilation unit and the root count 0), and no
\* instance that was created is deeper than maxInstanceDepth.
C3_DepthCountsInstanceAncestors ==
    \A i \in DOMAIN syms :
        IsInstanceKind(syms[i].kind) =>
            /\ InHierarchy(i) =>
                  syms[i].hierarchyDepth =
                      Cardinality({a \in ProperAncestors(syms, i) :
                                      IsInstanceKind(syms[a].kind)})
            /\ syms[i].hierarchyDepth <= maxInstanceDepth

\* an array element inside a generate block of an instance, and an instance made in
\* the scope of a definition, where no instance encloses it
C3_Witness ==
    /\ \E i \in DOMAIN syms :
          /\ IsInstanceKind(syms[i].kind)
          /\ syms[i].hierarchyDepth >= 1
          /\ syms[i].parent # 0
          /\ syms[syms[i].parent].kind = "InstanceArray"
          /\ syms[syms[syms[i].parent].parent].kind = "GenerateBlock"
    /\ \E i \in DOMAIN syms :
          /\ IsInstanceKind(syms[i].kind)
          /\ ~syms[i].isTemp
          /\ \E a \in ProperAncestors(syms, i) : syms[a].kind = "Definition"

\* C4: when the statement's module name does not resolve, the call emits exactly one
\* diagnostic, UnknownModule, examines no parameter assignment, creates no symbol and
\* leaves results unchanged.
C4_UnknownModuleStops ==
    \A k \in DOMAIN calls :
        LET c == calls[k]
        IN  ~Resolves(c) =>
                /\ c.diags = <<Diag("UnknownModule", c.scope, TypeLoc, c.syntax.type, NoLoc)>>
                /\ c.results = <<>>
                /\ c.orderedParams = <<>>
                /\ c.namedParams = <<>>
                /\ DOMAIN c.paramOverrides = {}
                /\ c.parameters = <<>>
                /\ c.tempDef = 0

\* an unresolved statement whose assignment list mixes the two forms
C4_Witness ==
    \E k \in DOMAIN calls :
        /\ ~Resolves(calls[k])
        /\ \E i, j \in DOMAIN calls[k].syntax.assignments :
              calls[k].syntax.assignments[i].kind # calls[k].syntax.assignments[j].kind

-----------------------------------------------------------------------------
(* Parameter assignment lists.                                             *)

\* the position of the first assignment whose form differs from the first one's; 0 if
\* the list keeps to one form
FirstMixed(a) ==
    LET other == {i \in DOMAIN a : a[i].kind # a[1].kind}
    IN  IF other = {} THEN 0 ELSE CHOOSE i \in other : \A j \in other : i <= j

\* the assignment a location points at; 0 if it points elsewhere
AssignmentOf(loc) == IF loc = ArgLoc(loc[2]) THEN loc[2] ELSE 0

\* the calls that reach the parameter assignments of a list written #( ... )
HasList(c) == Resolves(c) /\ c.syntax.hasParameters

\* C5: a list that mixes ordered and named assignments gets exactly one
\* MixingOrderedAndNamedParams, at the first assignment whose form differs from the
\* first assignment's; no assignment at or after that position enters the override
\* map, gives a parameter its value, or is the place or the note of any other
\* diagnostic. A list of one form gets no such diagnostic.
C5_MixingStopsTheList ==
    \A k \in DOMAIN calls :
        LET c == calls[k]
            m == FirstMixed(c.syntax.assignments)
            mixing == {d \in DOMAIN c.diags :
                          c.diags[d].code = "MixingOrderedAndNamedParams"}
        IN  HasList(c) =>
                /\ Cardinality(mixing) = (IF m > 0 THEN 1 ELSE 0)
                /\ m > 0 =>
                      /\ \A d \in mixing : c.diags[d].loc = ArgLoc(m)
                      /\ \A n \in DOMAIN c.paramOverrides : c.paramOverrides[n] < m
                      /\ \A p \in DOMAIN c.parameters :
                            c.parameters[p].value.src = "override"
                                => c.parameters[p].value.arg < m
                      /\ \A d \in DOMAIN c.diags \ mixing :
                            /\ AssignmentOf(c.diags[d].loc) < m
                            /\ AssignmentOf(c.diags[d].note) < m

\* a mixed list with an assignment after the diagnosed one, and an override before it
C5_Witness ==
    \E k \in DOMAIN calls :
        LET c == calls[k]
            m == FirstMixed(c.syntax.assignments)
        IN  /\ HasList(c)
            /\ m > 0
            /\ m < Len(c.syntax.assignments)
            /\ DOMAIN c.paramOverrides # {}
            /\ CountCode(c.diags, "MixingOrderedAndNamedParams") = 1

\* the list is not empty and every assignment is named
NamedList(c) ==
    /\ HasList(c)
    /\ c.syntax.assignments # <<>>
    /\ \A i \in DOMAIN c.syntax.assignments : c.syntax.assignments[i].kind = "NamedArgument"

\* the first assignment of the list that has the name
FirstUse(a, name) ==
    CHOOSE i \in DOMAIN a : a[i].name = name /\ \A j \in DOMAIN a : a[j].name = name => i <= j

\* the assignments with a non-empty name that an earlier assignment has
Repeats(a) == {j \in DOMAIN a : a[j].name # "" /\ FirstUse(a, a[j].name) < j}

\* C6: in a named list every assignment whose non-empty name repeats an earlier one's
\* gets exactly one DuplicateParamAssignment, at the repeat, noting the first use, and
\* there are no others: their number is the number of assignments with non-empty names
\* less the number of distinct names. The value applied for a name is the first
\* assignment's: the override map and the parameters refer to the first use only.
C6_DuplicateKeepsFirst ==
    \A k \in DOMAIN calls :
        LET c == calls[k]
            a == c.syntax.assignments
            dups == {d \in DOMAIN c.diags : c.diags[d].code = "DuplicateParamAssignment"}
            nonEmpty == {i \in DOMAIN a : a[i].name # ""}
        IN  NamedList(c) =>
                /\ \A j \in Repeats(a) :
                      Cardinality({d \in dups : c.diags[d].loc = ArgLoc(j)}) = 1
                /\ \A d \in dups :
                      /\ AssignmentOf(c.diags[d].loc) \in Repeats(a)
                      /\ c.diags[d].arg = a[AssignmentOf(c.diags[d].loc)].name
                      /\ c.diags[d].note = ArgLoc(FirstUse(a, c.diags[d].arg))
                /\ Cardinality(dups)
                      = Cardinality(nonEmpty) - Cardinality({a[i].name : i \in nonEmpty})
                /\ \A n \in DOMAIN c.paramOverrides :
                      c.paramOverrides[n] = FirstUse(a, n)
                /\ \A p \in DOMAIN c.parameters :
                      LET param == c.parameters[p]
                      IN  /\ param.value.src = "override"
                                => param.value.arg = FirstUse(a, param.name)
                          /\ (~param.isLocal /\ ~param.isType
                               /\ \E i \in DOMAIN a : a[i].name = param.name)
                                => (param.value.src = "override"
                                        <=> a[FirstUse(a, param.name)].expr # "none")

\* a name assigned twice with different values, the parameter taking the first
C6_Witness ==
    \E k \in DOMAIN calls :
        LET c == calls[k]
            a == c.syntax.assignments
        IN  /\ NamedList(c)
            /\ \E j \in Repeats(a) :
                  /\ a[j].expr # a[FirstUse(a, a[j].name)].expr
                  /\ \E p \in DOMAIN c.parameters :
                        /\ c.parameters[p].name = a[j].name
                        /\ c.parameters[p].value = [src |-> "override",
                                                    arg |-> FirstUse(a, a[j].name)]
            /\ CountCode(c.diags, "DuplicateParamAssignment") >= 1

\* the list, possibly empty, has ordered assignments only
OrderedList(c) ==
    /\ HasList(c)
    /\ \A i \in DOMAIN c.syntax.assignments :
          c.syntax.assignments[i].kind = "OrderedArgument"

\* the parameters of the call's definition that are not local
NonLocal(c) ==
    {p \in DOMAIN syms[c.definition].parameters : ~syms[c.definition].parameters[p].isLocal}

\* C7: an ordered list gets TooManyParamAssignments if and only if it has more
\* assignments than the definition has non-local parameters; the diagnostic is then
\* emitted once, at the first surplus assignment.
C7_TooManyOrdered ==
    \A k \in DOMAIN calls :
        LET c == calls[k]
            n == Cardinality(NonLocal(c))
            tooMany == {d \in DOMAIN c.diags : c.diags[d].code = "TooManyParamAssignments"}
        IN  OrderedList(c) =>
                /\ Cardinality(tooMany)
                      = (IF Len(c.syntax.assignments) > n THEN 1 ELSE 0)
                /\ \A d \in tooMany :
                      /\ c.diags[d].loc = ArgLoc(n + 1)
                      /\ c.diags[d].arg = c.syntax.type

\* one assignment more than the non-local parameters, a local parameter being skipped
C7_Witness ==
    \E k \in DOMAIN calls :
        LET c == calls[k]
            n == Cardinality(NonLocal(c))
        IN  /\ OrderedList(c)
            /\ n >= 1
            /\ n < Len(syms[c.definition].parameters)
            /\ Len(c.syntax.assignments) = n + 1
            /\ CountCode(c.diags, "TooManyParamAssignments") = 1

\* the parameters the call's definition declares
Declared(c) == syms[c.definition].parameters

\* the non-empty names the list assigns
AssignedNames(a) == {a[i].name : i \in {j \in DOMAIN a : a[j].name # ""}}

\* the assigned names that no declared parameter has
UnknownNames(c) ==
    AssignedNames(c.syntax.assignments) \ {Declared(c)[p].name : p \in DOMAIN Declared(c)}

\* the name has a valid override in the named list a: a parameter that is not local has
\* the name, and the first assignment of the name has a value
ValidOverride(c, name) ==
    LET a == c.syntax.assignments
    IN  /\ name \in AssignedNames(a)
        /\ a[FirstUse(a, name)].expr # "none"
        /\ \E p \in DOMAIN Declared(c) :
              Declared(c)[p].name = name /\ ~Declared(c)[p].isLocal

\* one ParameterDoesNotExist for each assigned name no parameter has, at its first
\* use, and none for any other name
UnknownNamesDiagnosed(c) ==
    LET pdne == {d \in DOMAIN c.diags : c.diags[d].code = "ParameterDoesNotExist"}
    IN  /\ \A n \in UnknownNames(c) :
              Cardinality({d \in pdne : c.diags[d].arg = n}) = 1
        /\ \A d \in pdne :
              /\ c.diags[d].arg \in UnknownNames(c)
              /\ c.diags[d].loc = ArgLoc(FirstUse(c.syntax.assignments, c.diags[d].arg))

\* every parameter whose name has no valid override has the value it was declared with
DefaultsKept(c) ==
    /\ Len(c.parameters) = Len(Declared(c))
    /\ \A p \in DOMAIN c.parameters :
          ~ValidOverride(c, c.parameters[p].name)
              => c.parameters[p].value = Declared(c)[p].value

\* the instances at or below a symbol: itself, or the leaves of an array's elements
RECURSIVE LeavesOf(_)
LeavesOf(i) ==
    IF syms[i].kind = "InstanceArray"
    THEN UNION {LeavesOf(syms[i].elements[e]) : e \in DOMAIN syms[i].elements}
    ELSE {i}

\* every instance name of the statement has a symbol, an instance unless the name has
\* dimensions, and every instance made for it holds the call's parameters
InstancesCreated(c) ==
    /\ Len(Instantiated(c)) = Len(c.syntax.instances)
    /\ \A i \in DOMAIN Instantiated(c) :
          /\ c.syntax.instances[i].dimensions = <<>>
                => IsInstanceKind(syms[Instantiated(c)[i]].kind)
          /\ \A l \in LeavesOf(Instantiated(c)[i]) :
                /\ IsInstanceKind(syms[l].kind)
                /\ syms[l].parameters = c.parameters

DistinctNames(c) ==
    \A p, q \in DOMAIN Declared(c) : Declared(c)[p].name = Declared(c)[q].name => p = q

\* the diagnostic a named assignment to the local parameter gets
LocalCode(param) ==
    IF param.isPort THEN "AssignedToLocalPortParam" ELSE "AssignedToLocalBodyParam"

\* C9: in a named list each local parameter whose name is assigned gets exactly one
\* diagnostic, at the first assignment of the name and noting the declaration:
\* AssignedToLocalPortParam if the parameter is declared in the parameter port list,
\* AssignedToLocalBodyParam if it is declared in the body; no other parameter gets
\* either. Whatever the form of the list, if the definition's parameter names are
\* distinct the override map holds no local parameter's name and every local parameter
\* keeps the value it was declared with.
C9_LocalNeverOverridden ==
    \A k \in DOMAIN calls :
        LET c == calls[k]
            a == c.syntax.assignments
            local == {d \in DOMAIN c.diags :
                         c.diags[d].code \in {"AssignedToLocalPortParam",
                                              "AssignedToLocalBodyParam"}}
            assigned == {p \in DOMAIN Declared(c) :
                            Declared(c)[p].isLocal /\ Declared(c)[p].name \in AssignedNames(a)}
        IN  /\ NamedList(c) =>
                /\ \A p \in assigned :
                      Cardinality({d \in local : c.diags[d].note = ParamLoc(p)}) = 1
                /\ \A d \in local :
                      \E p \in assigned :
                          /\ c.diags[d].note = ParamLoc(p)
                          /\ c.diags[d].code = LocalCode(Declared(c)[p])
                          /\ c.diags[d].loc = ArgLoc(FirstUse(a, Declared(c)[p].name))
            /\ (Resolves(c) /\ DistinctNames(c)) =>
                  \A p \in DOMAIN Declared(c) :
                      Declared(c)[p].isLocal =>
                          /\ Declared(c)[p].name \notin DOMAIN c.paramOverrides
                          /\ c.parameters[p].value = Declared(c)[p].value

\* a named list that assigns a local port parameter and a local body parameter of a
\* definition whose names are distinct: both diagnostics, and neither name overridden
C9_Witness ==
    \E k \in DOMAIN calls :
        /\ NamedList(calls[k])
        /\ DistinctNames(calls[k])
        /\ CountCode(calls[k].diags, "AssignedToLocalPortParam") = 1
        /\ CountCode(calls[k].diags, "AssignedToLocalBodyParam") = 1
        /\ \A i \in DOMAIN calls[k].syntax.assignments :
              calls[k].syntax.assignments[i].expr # "none"
        /\ DOMAIN calls[k].paramOverrides = {}

\* the assignments the scan reaches: the list up to the first assignment of another form
Scanned(a) == IF FirstMixed(a) = 0 THEN a ELSE SubSeq(a, 1, FirstMixed(a) - 1)

\* parameter p of the definition receives an override from the statement: in an ordered
\* list the assignment whose position is p's rank among the non-local parameters, in a
\* named list the first assignment of p's name, if it has a value
Overridden(c, p) ==
    LET a == Scanned(c.syntax.assignments)
        param == Declared(c)[p]
        rank == Cardinality({q \in 1..p : ~Declared(c)[q].isLocal})
    IN  /\ a # <<>>
        /\ ~param.isLocal
        /\ IF a[1].kind = "OrderedArgument"
           THEN rank <= Len(a)
           ELSE /\ param.name \in AssignedNames(a)
                /\ a[FirstUse(a, param.name)].expr # "none"

\* the parameters that must get their value from the statement and do not
Unsupplied(c) ==
    {p \in DOMAIN Declared(c) :
        /\ ~Declared(c)[p].isLocal
        /\ Declared(c)[p].isPort
        /\ ~Declared(c)[p].hasDefault
        /\ ~Overridden(c, p)}

\* C10: a statement gets exactly one ParamHasNoValue, at the statement, for each
\* non-local port parameter, value or type, that has no default and receives no
\* override, and none for a parameter that is local, declared in the body, has a
\* default or is overridden. A named assignment without a value, .P(), is no override.
C10_ParamHasNoValue ==
    \A k \in DOMAIN calls :
        LET c == calls[k]
            noValue == {d \in DOMAIN c.diags : c.diags[d].code = "ParamHasNoValue"}
        IN  Resolves(c) =>
                /\ \A p \in Unsupplied(c) :
                      Cardinality({d \in noValue : c.diags[d].arg = Declared(c)[p].name}) = 1
                /\ \A d \in noValue :
                      /\ c.diags[d].loc = StmtLoc
                      /\ \E p \in Unsupplied(c) : c.diags[d].arg = Declared(c)[p].name
                /\ DistinctNames(c) =>
                      DOMAIN c.paramOverrides
                          = {Declared(c)[p].name :
                                p \in {q \in DOMAIN Declared(c) : Overridden(c, q)}}

\* .P() written for a port parameter P that has no default: the diagnostic for P
C10_Witness ==
    \E k \in DOMAIN calls :
        LET c == calls[k]
            a == c.syntax.assignments
        IN  /\ NamedList(c)
            /\ \E p \in Unsupplied(c) :
                  /\ Declared(c)[p].name \in AssignedNames(a)
                  /\ a[FirstUse(a, Declared(c)[p].name)].expr = "none"
                  /\ \E d \in DOMAIN c.diags :
                        /\ c.diags[d].code = "ParamHasNoValue"
                        /\ c.diags[d].arg = Declared(c)[p].name

\* the dimensions written for the n-th instance name of the call's statement
DimensionsOf(c, n) == c.syntax.instances[n].dimensions

AllRanges(dims) == \A d \in DOMAIN dims : dims[d].isRange

\* recurseInstanceArray was called for the n-th instance name, which has dimensions:
\* its first dimension was evaluated
Recursed(c, n) ==
    \E e \in DOMAIN c.evals :
        /\ c.evals[e].instance = c.syntax.instances[n].name
        /\ c.evals[e].dimension = 1

\* the index vectors (i1..ik) with lower(rj) <= ij <= upper(rj)
RECURSIVE IndexVectors(_)
IndexVectors(dims) ==
    IF dims = <<>> THEN {<<>>}
    ELSE {<<Lower(Head(dims)) + o>> \o v :
              o \in 0..(Upper(Head(dims)) - Lower(Head(dims))),
              v \in IndexVectors(Tail(dims))}

\* the instances the call made for the n-th instance name, in arrays or not
InstancesFor(c, n) ==
    {i \in c.emplaced : /\ IsInstanceKind(syms[i].kind)
                        /\ syms[i].syntax = c.syntax.instances[n].name}

\* the symbol holds, level by level, one element for each index of the dimension in
\* ascending order, and below the last dimension an instance whose arrayPath is the
\* indices on the way to it
RECURSIVE ArrayOfRanges(_, _, _)
ArrayOfRanges(i, dims, path) ==
    IF dims = <<>>
    THEN IsInstanceKind(syms[i].kind) /\ syms[i].arrayPath = path
    ELSE /\ syms[i].kind = "InstanceArray"
         /\ Len(syms[i].elements) = Upper(Head(dims)) - Lower(Head(dims)) + 1
         /\ \A e \in DOMAIN syms[i].elements :
               ArrayOfRanges(syms[i].elements[e], Tail(dims),
                             Append(path, Lower(Head(dims)) + (e - 1)))

\* C11: for an instance name whose dimensions are all constant ranges r1..rk,
\* recurseInstanceArray makes exactly one instance for every index vector (i1..ik) with
\* lower(rj) <= ij <= upper(rj) and no other; the arrayPath of each is its index vector,
\* outermost dimension first, no two have the same arrayPath, and the elements of every
\* array level are in ascending index order.
C11_OneInstancePerIndexVector ==
    \A k \in DOMAIN calls :
        \A n \in DOMAIN calls[k].syntax.instances :
            LET c == calls[k]
                made == InstancesFor(c, n)
            IN  (Recursed(c, n) /\ AllRanges(DimensionsOf(c, n))) =>
                    /\ {syms[i].arrayPath : i \in made} = IndexVectors(DimensionsOf(c, n))
                    /\ \A i, j \in made : syms[i].arrayPath = syms[j].arrayPath => i = j
                    /\ c.returned
                    /\ ArrayOfRanges(Instantiated(c)[n], DimensionsOf(c, n), <<>>)

\* the symbol reached from a symbol by the indices of a path, one array level each
RECURSIVE SymbolAt(_, _, _)
SymbolAt(i, dims, path) ==
    IF path = <<>> THEN i
    ELSE SymbolAt(syms[i].elements[Head(path) - Lower(Head(dims)) + 1],
                  Tail(dims), Tail(path))

\* p is a prefix of q
IsPrefix(p, q) == Len(p) <= Len(q) /\ SubSeq(q, 1, Len(p)) = p

\* the evaluations of the call that found a dimension to be no constant range
NonRangeEvals(c) ==
    {e \in DOMAIN c.evals :
        \E n \in DOMAIN c.syntax.instances :
            /\ c.syntax.instances[n].name = c.evals[e].instance
            /\ ~DimensionsOf(c, n)[c.evals[e].dimension].isRange}

\* C12: where a dimension of an instance name evaluates to no constant range,
\* recurseInstanceArray gives an InstanceArray with no elements and the default range;
\* below it no later dimension is evaluated and no instance is created; and the call
\* still returns a symbol for the instance name.
C12_NonRangeGivesEmptyArray ==
    \A k \in DOMAIN calls :
        \A e \in NonRangeEvals(calls[k]) :
            LET c == calls[k]
                eval == c.evals[e]
                n == CHOOSE n \in DOMAIN c.syntax.instances :
                        c.syntax.instances[n].name = eval.instance
                array == SymbolAt(Instantiated(c)[n], DimensionsOf(c, n), eval.path)
            IN  /\ c.returned
                /\ Len(Instantiated(c)) = Len(c.syntax.instances)
                /\ syms[array].kind = "InstanceArray"
                /\ syms[array].elements = <<>>
                /\ syms[array].range = DefaultRange
                /\ \A f \in DOMAIN c.evals :
                      (c.evals[f].instance = eval.instance
                          /\ IsPrefix(eval.path, c.evals[f].path))
                          => c.evals[f].dimension <= eval.dimension
                /\ \A i \in InstancesFor(c, n) : ~IsPrefix(eval.path, syms[i].arrayPath)

\* x [0:1][n][0:1] with n no constant: the second dimension is evaluated for either
\* element of the first and gives an empty array each time; the third never is
C12_Witness ==
    \E k \in DOMAIN calls :
        LET c == calls[k]
        IN  /\ Len(DimensionsOf(c, 1)) = 3
            /\ Cardinality(NonRangeEvals(c)) = 2
            /\ Len(c.evals) = 3
            /\ c.returned
            /\ Len(syms[Instantiated(c)[1]].elements) = 2
            /\ \A e \in DOMAIN syms[Instantiated(c)[1]].elements :
                  /\ syms[syms[Instantiated(c)[1]].elements[e]].kind = "InstanceArray"
                  /\ syms[syms[Instantiated(c)[1]].elements[e]].elements = <<>>

\* the diagnostics of parameter assignments
ParameterCodes ==
    {"DuplicateParamAssignment", "TooManyParamAssignments", "ParameterDoesNotExist",
     "AssignedToLocalPortParam", "AssignedToLocalBodyParam", "ParamHasNoValue",
     "BadTypeParamExpr"}

ParameterDiags(c) == {d \in DOMAIN c.diags : c.diags[d].code \in ParameterCodes}

\* the temporary instances of the arena: one is made for each parameter evaluation
TempInstances == {i \in DOMAIN syms : syms[i].isTemp}

\* the instances the call made, in arrays or not, members of a scope or not
InstancesOf(c) == {i \in c.emplaced : IsInstanceKind(syms[i].kind)}

\* C13: every instance a statement creates, for whichever instance name and at
\* whichever array index, holds the parameters of one vector, which the call computed
\* once, in one temporary instance made before the first instance; and each parameter
\* diagnostic of the statement is emitted once, however many instances there are.
C13_ParametersComputedOnce ==
    /\ Cardinality(TempInstances)
          = Cardinality({k \in DOMAIN calls : Resolves(calls[k])})
    /\ \A k \in DOMAIN calls :
          LET c == calls[k]
          IN  Resolves(c) =>
                  /\ c.tempDef \in TempInstances
                  /\ syms[c.tempDef].parameters = c.parameters
                  /\ \A j \in DOMAIN calls : calls[j].tempDef = c.tempDef => j = k
                  /\ \A i \in c.emplaced : c.tempDef < i
                  /\ \A i \in InstancesOf(c) :
                        /\ IsPrefix(syms[i].parameters, c.parameters)
                        /\ syms[i].populated => syms[i].parameters = c.parameters
                  /\ \A d, e \in ParameterDiags(c) :
                        (/\ c.diags[d].code = c.diags[e].code
                         /\ c.diags[d].arg = c.diags[e].arg
                         /\ c.diags[d].loc = c.diags[e].loc) => d = e

\* m #(.Q(2)) x [0:1][3:2] (w), y (w, v) for a definition with a port parameter P that
\* has no default: five instances with the one vector, one ParameterDoesNotExist and
\* one ParamHasNoValue
C13_Witness ==
    \E k \in DOMAIN calls :
        LET c == calls[k]
        IN  /\ Cardinality(InstancesOf(c)) = 5
            /\ c.parameters # <<>>
            /\ \A i \in InstancesOf(c) : syms[i].parameters = c.parameters
            /\ CountCode(c.diags, "ParameterDoesNotExist") = 1
            /\ CountCode(c.diags, "ParamHasNoValue") = 1

\* the identifiers createImplicitNets looked at and found undeclared: <<n, j, t>> is the
\* t-th identifier of the j-th connection of the n-th instance name, for the instance
\* names the call got to
Undeclared(c) ==
    UNION {UNION {{<<n, j, t>> :
                     t \in {u \in DOMAIN c.syntax.instances[n].connections[j].idents :
                               c.syntax.instances[n].connections[j].idents[u]
                                   \notin DeclaredIdents}} :
                  j \in {i \in DOMAIN c.syntax.instances[n].connections :
                            /\ c.syntax.instances[n].connections[i].kind
                                  \in {"OrderedPortConnection", "NamedPortConnection"}
                            /\ c.syntax.instances[n].connections[i].hasExpr}} :
           n \in 1..c.netCalls}

IdentName(c, o) == c.syntax.instances[o[1]].connections[o[2]].idents[o[3]]

IdentLoc(c, o) == TokenLoc(c.syntax.instances[o[1]].name, o[2], o[3])

\* o comes before q in the statement
Before(o, q) ==
    \/ o[1] < q[1]
    \/ o[1] = q[1] /\ o[2] < q[2]
    \/ o[1] = q[1] /\ o[2] = q[2] /\ o[3] < q[3]

\* the first identifier of its name among the undeclared ones
FirstOfName(c, o) ==
    \A q \in Undeclared(c) : IdentName(c, q) = IdentName(c, o) => ~Before(q, o)

\* the nets the call appended to results
NetsOf(c) == {i \in Range(c.results) : syms[i].kind = "Net"}

\* the net is the implicit net of the identifier
NetFor(c, i, o) ==
    /\ syms[i].name = IdentName(c, o)
    /\ syms[i].location = IdentLoc(c, o)
    /\ syms[i].netType = defaultNetType
    /\ syms[i].type = "logic"

\* C14 as stated: every undeclared identifier of a port connection has a net with its
\* name and location, the default net type and the logic type; with the default net
\* type none there is no net.
C14_AsStated ==
    \A k \in DOMAIN calls :
        IF defaultNetType = "none"
        THEN NetsOf(calls[k]) = {}
        ELSE \A o \in Undeclared(calls[k]) :
                \E i \in NetsOf(calls[k]) : NetFor(calls[k], i, o)

\* C14: the undeclared identifiers of the port connections of one statement get one
\* net for each distinct name, with the name and the location of the first identifier
\* of that name in the statement, the default net type and the logic type, and results
\* holds no other net; with the default net type none there is no net.
C14_OneNetPerName ==
    \A k \in DOMAIN calls :
        LET c == calls[k]
        IN  IF defaultNetType = "none"
            THEN NetsOf(c) = {}
            ELSE /\ \A o \in Undeclared(c) :
                       FirstOfName(c, o) =>
                           /\ \E i \in NetsOf(c) : NetFor(c, i, o)
                           /\ Cardinality({i \in NetsOf(c) :
                                              syms[i].name = IdentName(c, o)}) = 1
                 /\ \A i \in NetsOf(c) :
                       \E o \in Undeclared(c) : syms[i].name = IdentName(c, o)

\* m x [0:1] (w), y (w, v): one net for w, at the w of x, and one for v
C14_Witness ==
    \E k \in DOMAIN calls :
        LET c == calls[k]
        IN  /\ defaultNetType = "wire"
            /\ Cardinality(Undeclared(c)) = 3
            /\ Cardinality(NetsOf(c)) = 2
            /\ \E i \in NetsOf(c) :
                  /\ syms[i].name = "w"
                  /\ syms[i].location = TokenLoc("x", 1, 1)
                  /\ syms[i].netType = "wire"
                  /\ syms[i].type = "logic"

\* C16: whatever the parameter assignments were diagnosed with, a call whose
\* definition resolves and whose depth is within the limit returns, and results holds,
\* for every instance name of the statement in source order, exactly one symbol of
\* that name: an instance, or an instance array when the name has dimensions.
C16_EveryInstanceNameGetsASymbol ==
    \A k \in DOMAIN calls :
        LET c == calls[k]
        IN  (Resolves(c) /\ ~c.exceeded) =>
                /\ c.returned
                /\ Len(Instantiated(c)) = Len(c.syntax.instances)
                /\ \A n \in DOMAIN Instantiated(c) :
                      /\ syms[Instantiated(c)[n]].name = c.syntax.instances[n].name
                      /\ IF DimensionsOf(c, n) = <<>>
                         THEN IsInstanceKind(syms[Instantiated(c)[n]].kind)
                         ELSE syms[Instantiated(c)[n]].kind = "InstanceArray"

\* the text a token stream was lexed from: each token's leading trivia, then its raw
\* text, in order
RECURSIVE TriviaText(_)
TriviaText(trivia) ==
    IF trivia = <<>> THEN <<>>
    ELSE trivia[1].rawText \o TriviaText(Tail(trivia))

RECURSIVE ConcatWithTrivia(_)
ConcatWithTrivia(ts) ==
    IF ts = <<>> THEN <<>>
    ELSE TriviaText(ts[1].trivia) \o ts[1].rawText \o ConcatWithTrivia(Tail(ts))

EndOfFileLexed ==
    /\ tokenStream # <<>>
    /\ tokenStream[Len(tokenStream)].kind = "EndOfFile"

DiagCodes == [k \in DOMAIN lexDiags |-> lexDiags[k].code]

PlainBytes == Bytes \ ({Char.quote, Char.backslash} \cup Newlines)

\* the text is a string literal, and the literal is the one token lexed
StringLexed ==
    /\ source # <<>>
    /\ source[1] = Char.quote
    /\ Len(tokenStream) = 1

\* the bytes from the opening quote to position n, n left out, stand for themselves
PlainBefore(n) == \A k \in 2..(n - 1) : source[k] \in PlainBytes

\* from m on the literal holds plain bytes up to its closing quote, a newline or the
\* end of the text
PlainEnd(m) == RunEnd(source, m, PlainBytes)

PlainToTheEnd(m) ==
    \/ AtEnd(source, PlainEnd(m))
    \/ source[PlainEnd(m)] \in {Char.quote} \cup Newlines

Closed(m) == ~AtEnd(source, PlainEnd(m)) /\ source[PlainEnd(m)] = Char.quote

\* the literal whose one escape sequence is the len bytes at n: it gives the bytes
\* before n, the contribution of the escape and the bytes after it, and is diagnosed
\* with codes, and with ExpectedClosingQuote when no quote closes it
DecodesTo(n, len, contribution, codes) ==
    /\ tokenStream[1].kind = "StringLiteral"
    /\ tokenStream[1].valueText =
           SubSeq(source, 2, n - 1) \o contribution
               \o SubSeq(source, n + len, PlainEnd(n + len) - 1)
    /\ DiagCodes = codes \o (IF Closed(n + len) THEN <<>> ELSE <<"ExpectedClosingQuote">>)

\* the backslash at n begins the one escape sequence of the literal, of len bytes
OneEscape(n, len) ==
    /\ n + len - 1 <= Len(source)
    /\ PlainBefore(n)
    /\ source[n] = Char.backslash
    /\ PlainToTheEnd(n + len)

ThreeOctalDigits(n) ==
    /\ n + 3 <= Len(source)
    /\ \A k \in 1..3 : source[n + k] \in OctalDigits

\* C18: of a string literal, an unescaped newline ends it with ExpectedClosingQuote
\* and the value text holds the bytes before the newline; a backslash before a
\* newline gives nothing and no diagnostic; an octal escape of 0x100 or more gives
\* nothing and OctalEscapeCodeTooBig; \x before a byte that is no hex digit gives that
\* byte and InvalidHexEscapeCode; a backslash before another byte that begins no
\* escape gives that byte and UnknownEscapeCode. The token is a StringLiteral in
\* each case.
C18_StringLiteralDecoding ==
    StringLexed =>
        /\ \A n \in 2..Len(source) :
              (PlainBefore(n) /\ source[n] \in Newlines) =>
                  /\ tokenStream[1].kind = "StringLiteral"
                  /\ tokenStream[1].valueText = SubSeq(source, 2, n - 1)
                  /\ DiagCodes = <<"ExpectedClosingQuote">>
        /\ \A n \in 2..Len(source) :
              /\ (OneEscape(n, 2) /\ source[n + 1] = Char.lf) =>
                     DecodesTo(n, 2, <<>>, <<>>)
              /\ (/\ ThreeOctalDigits(n)
                  /\ OneEscape(n, 4)
                  /\ ValueOf(source, n + 1, n + 4, 8) >= 256) =>
                     DecodesTo(n, 4, <<>>, <<"OctalEscapeCodeTooBig">>)
              /\ (/\ n + 2 <= Len(source)
                  /\ PlainBefore(n)
                  /\ source[n] = Char.backslash
                  /\ source[n + 1] = Char.x
                  /\ source[n + 2] \notin HexDigits
                  /\ PlainToTheEnd(n + 3)) =>
                     DecodesTo(n, 3, <<source[n + 2]>>, <<"InvalidHexEscapeCode">>)
              /\ (/\ OneEscape(n, 2)
                  /\ source[n + 1] \notin DOMAIN StandardEscapes
                  /\ source[n + 1] \notin Newlines \cup OctalDigits \cup {Char.x}) =>
                     DecodesTo(n, 2, <<source[n + 1]>>, <<"UnknownEscapeCode">>)

\* "a\444 with no closing quote: the value text is a
C18_Witness ==
    /\ StringLexed
    /\ source = <<Char.quote, 97, Char.backslash, 52, 52, 52>>
    /\ tokenStream[1].kind = "StringLiteral"
    /\ tokenStream[1].valueText = <<97>>
    /\ DiagCodes = <<"OctalEscapeCodeTooBig", "ExpectedClosingQuote">>

\* the `define directives of the name used at item p that come before it
DefinesBefore(p) ==
    {q \in 1..(p - 1) : /\ ppInput[q].kind = "DefineDirective"
                        /\ ppInput[q].name = ppInput[p].name}

\* item p uses a macro that one directive before it defines, as an object-like macro
DefinedObjectLike(p) ==
    /\ ppInput[p].kind = "MacroUsage"
    /\ \E q \in DefinesBefore(p) :
          /\ DefinesBefore(p) = {q}
          /\ ppInput[q].formalArguments = NoFormals

\* item p uses a name that no directive before it defines
NeverDefined(p) ==
    /\ ppInput[p].kind = "MacroUsage"
    /\ DefinesBefore(p) = {}

\* the tokens item p stands for: itself, nothing for a `define, the body for a use
Yield(p) ==
    IF ppInput[p].kind = "DefineDirective" THEN <<>>
    ELSE IF ppInput[p].kind = "MacroUsage"
    THEN ppInput[CHOOSE q \in DefinesBefore(p) : TRUE].body
    ELSE <<ppInput[p]>>

RECURSIVE Yields(_)
Yields(n) == IF n = 0 THEN <<>> ELSE Yields(n - 1) \o Yield(n)

\* the items before n are tokens, `define directives and uses of object-like macros
\* defined once
DefinedBefore(n) ==
    \A p \in 1..(n - 1) : ppInput[p].kind = "MacroUsage" => DefinedObjectLike(p)

WithoutTrivia(ts) == [k \in DOMAIN ts |-> [ts[k] EXCEPT !.trivia = <<>>]]

\* the tokens given out, EndOfFile left out
GivenOut == SelectSeq(ppOutput, LAMBDA t : t.kind # "EndOfFile")

\* C19: a `define directive gives no token and is trivia of the token that comes
\* next, with its name, its formal arguments and its body; a use of an object-like
\* macro that was defined gives the tokens of the macro's body in its place, and no
\* diagnostic; a use of a name that was never defined is diagnosed UnknownDirective.
C19_DefineAndUse ==
    /\ \A n \in 1..ppPosition :
          DefinedBefore(n) =>
              /\ \A d \in Range(ppDiags) : d.item >= n
              /\ IF n = ppPosition
                 THEN WithoutTrivia(GivenOut) \o WithoutTrivia(expansion) = Yields(n - 1)
                 ELSE /\ Len(GivenOut) >= Len(Yields(n - 1))
                      /\ SubSeq(WithoutTrivia(GivenOut), 1, Len(Yields(n - 1)))
                             = Yields(n - 1)
              /\ (n < ppPosition /\ ppInput[n].kind = "DefineDirective") =>
                     IF Len(ppOutput) > Len(Yields(n - 1))
                     THEN ppInput[n] \in Range(ppOutput[Len(Yields(n - 1)) + 1].trivia)
                     ELSE ppInput[n] \in Range(pendingTrivia)
    /\ \A p \in 1..(ppPosition - 1) :
          NeverDefined(p) =>
              PreprocessorDiag("UnknownDirective", p) \in Range(ppDiags)

\* `define FOO 42 and then `FOO: the integer literal 42, which holds the directive,
\* then EndOfFile, and no diagnostic
C19_Witness ==
    /\ ppInput = <<DefineDirective("FOO", NoFormals, <<Tok("IntegerLiteral", "42")>>),
                   MacroUsage("FOO")>>
    /\ Len(ppOutput) = 2
    /\ ppOutput[1].kind = "IntegerLiteral"
    /\ ppOutput[1].text = "42"
    /\ ppOutput[1].trivia = <<ppInput[1]>>
    /\ ppOutput[2].kind = "EndOfFile"
    /\ ppDiags = <<>>

StateOf(d) == declaredTypes[d].state

\* the declared types whose resolution is in progress, in call order
InProgress == [k \in DOMAIN resolving |-> resolving[k].declared]

\* the state of a declared type moves NotStarted -> InProgress -> Resolved; only
\* clearResolved, from outside every resolution, takes it back
StateMachine ==
    \A d \in DeclaredTypes :
        StateOf(d)' # StateOf(d) =>
            \/ StateOf(d) = "NotStarted" /\ StateOf(d)' = "InProgress"
            \/ StateOf(d) = "InProgress" /\ StateOf(d)' = "Resolved"
            \/ /\ resolving = <<>>
               /\ declaredTypes[d].cleared' = declaredTypes[d].cleared + 1
               /\ StateOf(d)' \in {"NotStarted", "InProgress"}

\* a request that meets a resolution in progress gives ErrorType and a
\* RecursiveResolution diagnostic, and begins no resolution
ReentryDiagnosed ==
    (resolving # <<>> /\ Wanted # Nothing /\ resolving' # resolving) =>
        (StateOf(Wanted) = "InProgress" =>
            /\ Len(resolving') = Len(resolving)
            /\ resolving'[Len(resolving)].got = Top.got \o <<ErrorType>>
            /\ typeDiags' = Append(typeDiags, [code |-> "RecursiveResolution",
                                               declared |-> Wanted])
            /\ declaredTypes' = declaredTypes)

\* a request gives the type that is kept; one that is answered at once is a request
\* for a resolved type, and resolves nothing
Memoized ==
    (result' # result /\ result' # NoResult) =>
        /\ declaredTypes'[result'.declared].state = "Resolved"
        /\ result'.type = declaredTypes'[result'.declared].type
        /\ resolving = <<>> =>
               /\ StateOf(result'.declared) = "Resolved"
               /\ declaredTypes' = declaredTypes
               /\ resolving' = <<>>

\* what the states mean: the declared types in progress are those on the stack, once
\* each; a resolved one holds a type; each is resolved once, and once more after
\* each clear
StatesMean ==
    /\ \A d \in DeclaredTypes :
          /\ StateOf(d) \in {"NotStarted", "InProgress", "Resolved"}
          /\ StateOf(d) = "InProgress" <=> d \in Range(InProgress)
          /\ StateOf(d) = "Resolved" => declaredTypes[d].type # NoType
          /\ declaredTypes[d].resolutions <= declaredTypes[d].cleared + 1
    /\ \A j, k \in DOMAIN resolving : InProgress[j] = InProgress[k] => j = k

\* C20: the state of a declared type moves NotStarted -> InProgress -> Resolved; a
\* request that meets InProgress gives ErrorType and a RecursiveResolution diagnostic
\* and does not recurse, so that every resolution that is begun returns; a request for
\* a resolved type gives the kept type and resolves nothing, and a type is resolved
\* again only after clearResolved.
C20_LazyTypeResolution ==
    /\ []StatesMean
    /\ [][StateMachine /\ ReentryDiagnosed /\ Memoized]_vars
    /\ \A d \in DeclaredTypes : (StateOf(d) = "InProgress") ~> (StateOf(d) = "Resolved")

\* two declared types whose initializers name each other: the cycle was diagnosed
\* once, both are resolved to ErrorType, and the first was cleared and resolved again
C20_Witness ==
    /\ resolving = <<>>
    /\ declaredTypes[1].initializer = 2
    /\ declaredTypes[2].initializer = 1
    /\ declaredTypes[1].resolutions = 2
    /\ declaredTypes[1].cleared = 1
    /\ declaredTypes[1].type = ErrorType
    /\ declaredTypes[2].type = ErrorType
    /\ typeDiags = <<[code |-> "RecursiveResolution", declared |-> 1]>>
    /\ result = [declared |-> 1, type |-> ErrorType]

\* the i-th parameter of the call's definition that is not local, in declaration order
NthNonLocal(c, i) ==
    CHOOSE p \in NonLocal(c) : Cardinality({q \in NonLocal(c) : q < p}) = i - 1

\* how many ordered assignments are matched with a parameter
Matched(c) ==
    IF Len(c.orderedParams) < Cardinality(NonLocal(c)) THEN Len(c.orderedParams)
    ELSE Cardinality(NonLocal(c))

\* the list begins with an ordered assignment
OrderedFirst(c) ==
    /\ HasList(c)
    /\ c.syntax.assignments # <<>>
    /\ c.syntax.assignments[1].kind = "OrderedArgument"

\* the first of the non-local parameters up to the i-th that has the i-th's name
FirstOfThatName(c, i) ==
    CHOOSE j \in 1..i :
        /\ Declared(c)[NthNonLocal(c, j)].name = Declared(c)[NthNonLocal(c, i)].name
        /\ \A h \in 1..(j - 1) :
              Declared(c)[NthNonLocal(c, h)].name # Declared(c)[NthNonLocal(c, i)].name

\* the cloned parameter p has the value of assignment j, or assignment j is no type
\* where a type is needed
TakesAssignment(c, p, j) ==
    IF c.parameters[p].isType /\ c.syntax.assignments[j].expr \notin {"Name", "DataType"}
    THEN c.parameters[p].value = Declared(c)[p].value
    ELSE c.parameters[p].value = [src |-> "override", arg |-> j]

\* local parameters take no ordered assignment, and the override map has the names of
\* the matched non-local parameters, one entry each
LocalsSkipped(c) ==
    /\ c.orderedIndex = Matched(c)
    /\ DOMAIN c.paramOverrides
           = {Declared(c)[NthNonLocal(c, i)].name : i \in 1..Matched(c)}
    /\ \A p \in DOMAIN Declared(c) :
          (Declared(c)[p].isLocal /\ Declared(c)[p].name \notin DOMAIN c.paramOverrides)
              => c.parameters[p].value = Declared(c)[p].value

\* C21 as stated: in a list that begins with ordered assignments, the i-th ordered
\* assignment overrides the i-th parameter of the definition that is not local, local
\* parameters taking no assignment, and the override map has one entry per name.
C21_AsStated ==
    \A k \in DOMAIN calls :
        LET c == calls[k]
        IN  OrderedFirst(c) =>
                /\ LocalsSkipped(c)
                /\ \A i \in 1..Matched(c) :
                      /\ c.orderedParams[i] = i
                      /\ c.paramOverrides[Declared(c)[NthNonLocal(c, i)].name] = i
                      /\ TakesAssignment(c, NthNonLocal(c, i), i)

\* C21: in a list that begins with ordered assignments, the i-th ordered assignment is
\* matched with the i-th parameter of the definition that is not local, local
\* parameters taking no assignment; it enters the override map under that
\* parameter's name unless an earlier non-local parameter has the same name, whose
\* entry is then kept, so that the parameter takes the value of the assignment
\* matched with the first non-local parameter of its name. The map has one entry per
\* name.
C21_OrderedBindByName ==
    \A k \in DOMAIN calls :
        LET c == calls[k]
        IN  OrderedFirst(c) =>
                /\ LocalsSkipped(c)
                /\ \A i \in 1..Matched(c) :
                      /\ c.orderedParams[i] = i
                      /\ c.paramOverrides[Declared(c)[NthNonLocal(c, i)].name]
                             = FirstOfThatName(c, i)
                      /\ TakesAssignment(c, NthNonLocal(c, i), FirstOfThatName(c, i))

\* a local parameter comes first and the first assignment overrides the parameter
\* after it
C21_Witness ==
    \E k \in DOMAIN calls :
        LET c == calls[k]
        IN  /\ OrderedFirst(c)
            /\ Len(Declared(c)) = 2
            /\ Declared(c)[1].isLocal
            /\ NonLocal(c) = {2}
            /\ NthNonLocal(c, 1) = 2
            /\ c.paramOverrides = [n \in {Declared(c)[2].name} |-> 1]
            /\ c.parameters[1].value = Declared(c)[1].value
            /\ c.parameters[2].value = [src |-> "override", arg |-> 1]

\* the declarators of the declarations from the i-th on, each with the index of its
\* declaration
RECURSIVE DeclaratorsFrom(_, _)
DeclaratorsFrom(decls, i) ==
    IF i > Len(decls) THEN <<>>
    ELSE [j \in DOMAIN decls[i].declarators |->
             [declaration |-> i, name |-> decls[i].declarators[j].name]]
         \o DeclaratorsFrom(decls, i + 1)

\* the declarations of the parameter port list, and those of the body's parameter
\* declaration statements
PortDeclarations(syntax) == IF syntax.hasPortParams THEN syntax.portDecls ELSE <<>>

BodyDeclarations(syntax) ==
    LET statements == SelectSeq(syntax.members,
                                LAMBDA m : m.kind = "ParameterDeclarationStatement")
    IN  [i \in DOMAIN statements |-> statements[i].parameter]

\* the keyword that holds for the i-th declaration of a port list: its own, or that of
\* the nearest declaration before it that has one
KeywordInForce(decls, i) ==
    LET keyed == {j \in 1..i : decls[j].keyword # "none"}
    IN  IF keyed = {} THEN "none"
        ELSE decls[CHOOSE j \in keyed : \A h \in keyed : h <= j].keyword

DefinitionSymbols == {d \in DOMAIN syms : syms[d].kind = "Definition"}

\* C22: a parameter of the port list is local iff the keyword of its declaration, or of
\* the nearest declaration with a keyword before it, is localparam (not local when
\* there is none); a parameter of the body is local iff the definition has a
\* parameter port list or its declaration says localparam; and `parameters` holds the
\* port parameters and then the body parameters, each in the order declared.
C22_ParameterLocality ==
    \A d \in DefinitionSymbols :
        LET syntax == DeclSyntax(program, syms[d].name)
            port == DeclaratorsFrom(PortDeclarations(syntax), 1)
            body == DeclaratorsFrom(BodyDeclarations(syntax), 1)
            parameters == syms[d].parameters
        IN  /\ Len(parameters) = Len(port) + Len(body)
            /\ \A k \in DOMAIN port :
                  /\ parameters[k].name = port[k].name
                  /\ parameters[k].isPort
                  /\ parameters[k].isLocal
                        <=> KeywordInForce(PortDeclarations(syntax), port[k].declaration)
                               = "localparam"
            /\ \A k \in DOMAIN body :
                  /\ parameters[Len(port) + k].name = body[k].name
                  /\ ~parameters[Len(port) + k].isPort
                  /\ parameters[Len(port) + k].isLocal
                        <=> \/ syntax.hasPortParams
                            \/ BodyDeclarations(syntax)[body[k].declaration].keyword
                                   = "localparam"

\* #(localparam P = 1, parameter Q = 2, R = 3); parameter S = 4;  has been instantiated:
\* R follows Q and is not local, S is local because of the port list
C22_Witness ==
    \E k \in DOMAIN calls :
        LET c == calls[k]
        IN  /\ Resolves(c)
            /\ Len(Declared(c)) = 4
            /\ DeclSyntax(program, syms[c.definition].name).portDecls[3].keyword = "none"
            /\ [i \in 1..4 |-> Declared(c)[i].name] = <<"P", "Q", "R", "S">>
            /\ [i \in 1..4 |-> Declared(c)[i].isLocal] = <<TRUE, FALSE, FALSE, TRUE>>
            /\ [i \in 1..4 |-> Declared(c)[i].isPort] = <<TRUE, TRUE, TRUE, FALSE>>

\* the places of results that hold a net of the name
NetPlaces(c, name) ==
    {r \in DOMAIN c.results :
        syms[c.results[r]].kind = "Net" /\ syms[c.results[r]].name = name}

\* the places of results that hold the symbol made for the n-th instance name (none
\* when the call never got to append it)
InstancePlaces(c, n) ==
    {r \in DOMAIN c.results :
        /\ syms[c.results[r]].kind # "Net"
        /\ Cardinality({q \in 1..r : syms[c.results[q]].kind # "Net"}) = n}

\* C23: in the results of one statement every name that createImplicitNets found
\* undeclared has exactly one net, however many connections and instance names
\* mention it, and that net stands before the symbol of the first instance name whose
\* connections mention it (and so before the symbol of every instance name that
\* does).
C23_NetBeforeFirstInstance ==
    \A k \in DOMAIN calls :
        LET c == calls[k]
        IN  defaultNetType # "none" =>
                \A o \in Undeclared(c) :
                    /\ Cardinality(NetPlaces(c, IdentName(c, o))) = 1
                    /\ \A r \in NetPlaces(c, IdentName(c, o)) :
                          \A q \in InstancePlaces(c, o[1]) : r < q

\* m x (w), y (w, v): results is the net w, x, the net v, y
C23_Witness ==
    \E k \in DOMAIN calls :
        LET c == calls[k]
        IN  /\ c.returned
            /\ Len(c.results) = 4
            /\ Len(c.syntax.instances) = 2
            /\ [r \in 1..4 |-> syms[c.results[r]].kind = "Net"]
                   = <<TRUE, FALSE, TRUE, FALSE>>
            /\ [r \in 1..4 |-> syms[c.results[r]].name] = <<"w", "x", "v", "y">>
            /\ \E o \in Undeclared(c) : o[1] = 2 /\ IdentName(c, o) = "w"

\* upper - lower + 1 for every dimension, multiplied
RECURSIVE ElementCount(_)
ElementCount(dims) ==
    IF dims = <<>> THEN 1
    ELSE (Upper(Head(dims)) - Lower(Head(dims)) + 1) * ElementCount(Tail(dims))

\* C24: for an instance name whose dimensions are constant ranges of int32_t bounds the
\* element loops end, upper = INT32_MAX included: the call returns, having made
\* upper - lower + 1 elements for every pass of every dimension, and the loop index is
\* never beyond the range, so it never overflows.
C24_ElementLoopEnds ==
    \A k \in DOMAIN calls :
        \A n \in DOMAIN calls[k].syntax.instances :
            LET c == calls[k]
                dims == DimensionsOf(c, n)
            IN  (Recursed(c, n) /\ AllRanges(dims)) =>
                    /\ c.returned
                    /\ Cardinality(InstancesFor(c, n)) = ElementCount(dims)
                    /\ \A i \in InstancesFor(c, n) :
                          \A d \in DOMAIN syms[i].arrayPath :
                              /\ Lower(dims[d]) <= syms[i].arrayPath[d]
                              /\ syms[i].arrayPath[d] <= Upper(dims[d])

\* the names and the port flags of a parameter list, in order
NamesOf(parameters) ==
    [p \in DOMAIN parameters |-> <<parameters[p].name, parameters[p].isPort>>]

\* the instances populate has filled: all but the temporary ones, which house the
\* parameters of a call and are never populated
PopulatedInstances == {i \in DOMAIN syms : IsInstanceKind(syms[i].kind) /\ ~syms[i].isTemp}

\* the declarators of the body's parameter declaration statements find, after the
\* leading port parameters of the vector, one entry each, of their name
BodyDeclaratorsFound(syntax, parameters) ==
    LET ports == Cardinality({p \in DOMAIN parameters : parameters[p].isPort})
        body == DeclaratorsFrom(BodyDeclarations(syntax), 1)
    IN  /\ \A p \in DOMAIN parameters : parameters[p].isPort <=> p <= ports
        /\ \A j \in DOMAIN body :
              /\ ports + j <= Len(parameters)
              /\ parameters[ports + j].name = body[j].name

\* C25: the assertions of populate hold for every instance made, by
\* InstanceSymbol::fromSyntax or for the root: the parameter vector of a call has the
\* length, the order and the names of the definition's parameter list, and after the
\* leading port parameters every declarator of the body's parameter declarations
\* finds an entry of its name.
C25_PopulateAssertionsHold ==
    /\ \A k \in DOMAIN calls :
          calls[k].tempDef # 0 =>
              NamesOf(calls[k].parameters) = NamesOf(Declared(calls[k]))
    /\ \A i \in PopulatedInstances :
          LET definition == GetDefinition(syms, syms[i].definition)
          IN  /\ syms[i].populated
              /\ NamesOf(syms[i].parameters) = NamesOf(syms[definition].parameters)
              /\ BodyDeclaratorsFound(DeclSyntax(program, syms[i].definition),
                                      syms[i].parameters)

\* an instance of  #(localparam P = 1, parameter Q = 2, R = 3); parameter S = 4;  with
\* Q overridden: three port parameters, then the body's S
C25_Witness ==
    \E k \in DOMAIN calls :
        LET c == calls[k]
        IN  /\ c.returned
            /\ \E i \in InstancesOf(c) :
                  /\ i \in PopulatedInstances
                  /\ syms[i].populated
                  /\ Len(syms[i].parameters) = 4
                  /\ syms[i].parameters[2].value = [src |-> "override", arg |-> 1]
                  /\ ~syms[i].parameters[4].isPort
                  /\ syms[i].parameters[4].name = "S"

\* the codes of the diagnostics a check added, in order
CheckCodes == [k \in DOMAIN checkResult.diags |-> checkResult.diags[k].code]

\* the arguments passed, the receiver of a method call not counted
Provided == IF checkResult.isMethod THEN Len(callArgs) - 1 ELSE Len(callArgs)

\* C26: checkArgCount returns true iff min <= provided <= max and no argument is bad;
\* it adds exactly one TooFewArguments when provided < min, exactly one
\* TooManyArguments when provided > max, and nothing otherwise, so that a bad
\* argument gives false without a diagnostic; checkArguments gives the error type
\* exactly when the check fails.
C26_ArgCountChecked ==
    checkResult.fn = "checkArguments" =>
        /\ checkResult.ret <=> /\ checkResult.min <= Provided
                               /\ Provided <= checkResult.max
                               /\ \A a \in DOMAIN callArgs : ~Bad(callArgs[a])
        /\ CheckCodes = IF Provided < checkResult.min THEN <<"TooFewArguments">>
                        ELSE IF Provided > checkResult.max THEN <<"TooManyArguments">>
                        ELSE <<>>
        /\ checkResult.type = IF checkResult.ret THEN "returnType" ELSE "ErrorType"

\* a method call with the right number of arguments, one of them bad: false, the error
\* type, and no diagnostic
C26_Witness ==
    /\ checkResult.fn = "checkArguments"
    /\ checkResult.isMethod
    /\ Len(callArgs) = 3
    /\ checkResult.min = 1
    /\ checkResult.max = 2
    /\ Bad(callArgs[3])
    /\ ~checkResult.ret
    /\ checkResult.type = "ErrorType"
    /\ checkResult.diags = <<>>

\* C27: the argument TooManyArguments is reported at is within args and is the first
\* argument in excess of max: args[max] of a plain call, and args[max + 1] of a method
\* call, whose args[0] is the receiver.
C27_FirstExcessArgument ==
    (checkResult.fn = "checkArguments" /\ CheckCodes = <<"TooManyArguments">>) =>
        checkResult.diags[1].at
            = <<"arg", IF checkResult.isMethod THEN checkResult.max + 1
                       ELSE checkResult.max>>

\* the diagnostics of a code that a check added at argument i
DiagsAt(code, i) ==
    {k \in DOMAIN checkResult.diags :
        checkResult.diags[k].code = code /\ checkResult.diags[k].at = <<"arg", i>>}

\* the arguments after the format string that have a specifier of it
Formatted(S) == IF Len(callArgs) - 1 < S THEN Len(callArgs) - 1 ELSE S

\* C28: checkFormatValues, when args[0] is a string literal that parses into S
\* specifiers and A = args.size(): adds max(0, S - (A - 1)) FormatNoArgument, adds
\* FormatTooManyArgs once iff A - 1 > S, goes on past a mismatch so that every
\* mismatched argument has its FormatMismatchedType, reads args only within bounds,
\* and returns true iff none of FormatNoArgument, FormatMismatchedType and
\* FormatTooManyArgs was added (FormatRealInt does not fail it); a format string that
\* does not parse gives false; when args[0] is no string literal it returns true
\* without a diagnostic.
C28_FormatValuesChecked ==
    checkResult.fn = "checkFormatValues" =>
        LET S == callArgs[1].specs
            A == Len(callArgs)
        IN  /\ checkResult.read \subseteq 0..(A - 1)
            /\ callArgs[1].kind # "StringLiteral" =>
                  checkResult.ret /\ checkResult.diags = <<>>
            /\ (callArgs[1].kind = "StringLiteral" /\ ~callArgs[1].parses) =>
                  ~checkResult.ret
            /\ (callArgs[1].kind = "StringLiteral" /\ callArgs[1].parses) =>
                  /\ CountCode(checkResult.diags, "FormatNoArgument")
                        = IF S - (A - 1) > 0 THEN S - (A - 1) ELSE 0
                  /\ CountCode(checkResult.diags, "FormatTooManyArgs")
                        = IF A - 1 > S THEN 1 ELSE 0
                  /\ CountCode(checkResult.diags, "FormatNoArgument") = 0
                        \/ CountCode(checkResult.diags, "FormatTooManyArgs") = 0
                  /\ \A i \in 1..(A - 1) :
                        Cardinality(DiagsAt("FormatMismatchedType", i))
                            = IF i <= Formatted(S) /\ callArgs[i + 1].fits = "mismatch"
                              THEN 1 ELSE 0
                  /\ CountCode(checkResult.diags, "FormatMismatchedType")
                        = Cardinality({i \in 1..Formatted(S) :
                                          callArgs[i + 1].fits = "mismatch"})
                  /\ checkResult.ret
                        <=> /\ CountCode(checkResult.diags, "FormatNoArgument") = 0
                            /\ CountCode(checkResult.diags, "FormatMismatchedType") = 0
                            /\ CountCode(checkResult.diags, "FormatTooManyArgs") = 0

\* a format string of two specifiers and two arguments that both mismatch: each has its
\* diagnostic
C28_Witness ==
    /\ checkResult.fn = "checkFormatValues"
    /\ Len(callArgs) = 3
    /\ callArgs[1].kind = "StringLiteral"
    /\ callArgs[1].parses
    /\ callArgs[1].specs = 2
    /\ CheckCodes = <<"FormatMismatchedType", "FormatMismatchedType">>
    /\ checkResult.diags[1].at = <<"arg", 1>>
    /\ checkResult.diags[2].at = <<"arg", 2>>
    /\ ~checkResult.ret

\* the specifiers pending when the scan comes to argument i (counted from 0), were it
\* to get there: a string literal met with none pending brings its own, every other
\* argument takes one if there is one
RECURSIVE PendingAt(_)
PendingAt(i) ==
    IF i = 0 THEN 0
    ELSE IF PendingAt(i - 1) > 0 THEN PendingAt(i - 1) - 1
    ELSE IF callArgs[i].kind = "StringLiteral" /\ callArgs[i].parses THEN callArgs[i].specs
    ELSE 0

\* the diagnostic, if any, of the hard error argument i is (argument i counted from 0)
HardErrorAt(i) ==
    LET arg == callArgs[i + 1]
    IN  IF arg.kind = "EmptyArgument"
        THEN IF PendingAt(i) > 0 THEN <<"FormatEmptyArg">> ELSE <<"none">>
        ELSE IF Bad(arg) THEN <<>>
        ELSE IF PendingAt(i) > 0
        THEN IF arg.fits = "mismatch" THEN <<"FormatMismatchedType">> ELSE <<"none">>
        ELSE IF arg.kind = "StringLiteral"
        THEN IF arg.parses THEN <<"none">> ELSE <<"SFormatParse">>
        ELSE IF arg.unspecified THEN <<"FormatUnspecifiedType">> ELSE <<"none">>

HardErrors == {i \in 0..(Len(callArgs) - 1) : HardErrorAt(i) # <<"none">>}

HardCodes == {"FormatEmptyArg", "FormatUnspecifiedType", "FormatMismatchedType"}

\* the arguments scanned that met no pending specifier and began no format string
Surplus ==
    {i \in 0..(checkResult.scanned - 1) :
        PendingAt(i) = 0 /\ callArgs[i + 1].kind # "StringLiteral"}

\* what the claim and its amendment share: the scan goes from left to right and ends at
\* the first hard error, returning false with at most that error's diagnostic; it
\* reaches the end otherwise, and then adds FormatNoArgument once for every specifier
\* of the last format string still pending; it returns true iff there was no hard
\* error and no specifier was left
ScanOfFormatArgs ==
    /\ IF HardErrors = {}
       THEN /\ checkResult.ended
            /\ checkResult.scanned = Len(callArgs)
            /\ checkResult.specs - checkResult.specIt = PendingAt(Len(callArgs))
            /\ CountCode(checkResult.diags, "FormatNoArgument") = PendingAt(Len(callArgs))
            /\ \A k \in DOMAIN checkResult.diags :
                  checkResult.diags[k].code = "FormatNoArgument" =>
                      /\ checkResult.diags[k].at[2] = checkResult.fmt
                      /\ callArgs[checkResult.fmt + 1].kind = "StringLiteral"
                      /\ \A j \in (checkResult.fmt + 1)..(Len(callArgs) - 1) :
                            PendingAt(j) > 0
            /\ \A code \in HardCodes \cup {"SFormatParse"} :
                  CountCode(checkResult.diags, code) = 0
            /\ checkResult.ret <=> PendingAt(Len(callArgs)) = 0
       ELSE LET first == CHOOSE i \in HardErrors : \A j \in HardErrors : i <= j
            IN  /\ ~checkResult.ended
                /\ ~checkResult.ret
                /\ checkResult.scanned = first + 1
                /\ CountCode(checkResult.diags, "FormatNoArgument") = 0
                /\ SelectSeq(CheckCodes, LAMBDA code : code # "FormatRealInt")
                       = HardErrorAt(first)
                /\ HardErrorAt(first) # <<>> =>
                       checkResult.diags[Len(checkResult.diags)].at = <<"arg", first>>
    /\ Cardinality({k \in DOMAIN checkResult.diags :
                        checkResult.diags[k].code \in HardCodes}) <= 1
    /\ \A i \in 0..(checkResult.scanned - 1) :
          Cardinality(DiagsAt("FormatRealInt", i))
              = IF /\ PendingAt(i) > 0
                   /\ callArgs[i + 1].kind \notin {"EmptyArgument", "Invalid"}
                   /\ callArgs[i + 1].fits = "realToInt"
                THEN 1 ELSE 0

\* C29 as stated: the scan of checkFormatArgs as above, and an argument that comes when
\* all specifiers are consumed never has a diagnostic.
C29_AsStated ==
    checkResult.fn = "checkFormatArgs" =>
        /\ ScanOfFormatArgs
        /\ \A i \in Surplus :
              \A k \in DOMAIN checkResult.diags : checkResult.diags[k].at # <<"arg", i>>

\* C29: the scan of checkFormatArgs as above; an argument that comes when all
\* specifiers are consumed is never diagnosed for being surplus (there is no
\* FormatTooManyArgs), and has a diagnostic only when its type is an aggregate that
\* is no byte array: FormatUnspecifiedType, the hard error that ends the scan.
C29_FormatArgsScan ==
    checkResult.fn = "checkFormatArgs" =>
        /\ ScanOfFormatArgs
        /\ CountCode(checkResult.diags, "FormatTooManyArgs") = 0
        /\ \A i \in Surplus :
              /\ \A k \in DOMAIN checkResult.diags :
                    checkResult.diags[k].at = <<"arg", i>> =>
                        /\ checkResult.diags[k].code = "FormatUnspecifiedType"
                        /\ i = checkResult.scanned - 1
              /\ (~Bad(callArgs[i + 1]) /\ callArgs[i + 1].kind # "EmptyArgument")
                    => (DiagsAt("FormatUnspecifiedType", i) # {}
                           <=> callArgs[i + 1].unspecified)

\* "%d", a real for it, then a format string of two specifiers with nothing after it:
\* the scan reaches the end and both specifiers of the last format string are
\* diagnosed
C29_Witness ==
    /\ checkResult.fn = "checkFormatArgs"
    /\ Len(callArgs) = 3
    /\ callArgs[1].kind = "StringLiteral"
    /\ callArgs[1].specs = 1
    /\ callArgs[3].kind = "StringLiteral"
    /\ checkResult.ended
    /\ checkResult.fmt = 2
    /\ CheckCodes = <<"FormatRealInt", "FormatNoArgument", "FormatNoArgument">>
    /\ ~checkResult.ret

\* the member of the definition that has the name looked up, if any
Named(modport) == {m \in defMembers : m.name = modport}

\* C30: getModportOrError has four outcomes. An empty name: null, no diagnostic. A name
\* no member has: null and one UnknownMember. A member that is no modport: null and
\* one NotAModport with a note at the member's declaration. A modport: that symbol, no
\* diagnostic. What it returns, when not null, is a modport among the definition's
\* members.
C30_ModportOrError ==
    lookup.calls > 0 =>
        /\ IF lookup.modport = ""
           THEN lookup.symbol = NoSymbol /\ lookup.diags = <<>>
           ELSE IF Named(lookup.modport) = {}
           THEN /\ lookup.symbol = NoSymbol
                /\ Len(lookup.diags) = 1
                /\ lookup.diags[1].code = "UnknownMember"
                /\ lookup.diags[1].at = lookup.range
                /\ lookup.diags[1].notes = <<>>
           ELSE IF \A m \in Named(lookup.modport) : m.kind # "Modport"
           THEN /\ lookup.symbol = NoSymbol
                /\ Len(lookup.diags) = 1
                /\ lookup.diags[1].code = "NotAModport"
                /\ lookup.diags[1].at = lookup.range
                /\ Len(lookup.diags[1].notes) = 1
                /\ lookup.diags[1].notes[1].code = "NoteDeclarationHere"
                /\ \E m \in Named(lookup.modport) :
                      lookup.diags[1].notes[1].at = m.location
           ELSE /\ lookup.symbol \in Named(lookup.modport)
                /\ lookup.diags = <<>>
        /\ lookup.symbol # NoSymbol =>
              lookup.symbol \in defMembers /\ lookup.symbol.kind = "Modport"

\* interface I with a net mp and a modport q: the lookup of mp gives null and
\* NotAModport with a note at the net
C30_Witness ==
    /\ lookup.calls > 0
    /\ lookup.modport = "mp"
    /\ Member("mp", "Net", <<"member", "mp">>) \in defMembers
    /\ Member("q", "Modport", <<"member", "q">>) \in defMembers
    /\ lookup.symbol = NoSymbol
    /\ Len(lookup.diags) = 1
    /\ lookup.diags[1].code = "NotAModport"
    /\ lookup.diags[1].notes = <<[code |-> "NoteDeclarationHere",
                                  at |-> <<"member", "mp">>]>>

====
